---- MODULE Spec2Model ----
(***************************************************************************)
(* Real-time messaging and signaling subsystem of deen-bridge-backend:     *)
(* the WebRTC signaling relay (core/consumers.py), the chat channel        *)
(* (chats/consumers.py, chats/views.py, chats/models.py) and the           *)
(* notification fan-out (notifications/consumers.py, notifications/utils.py)*)
(* over one shared channel layer (groups of channels, one queue per        *)
(* channel).                                                               *)
(*                                                                         *)
(* Text is modelled as a sequence of one-character strings, so that group  *)
(* keys built by string formatting can collide or be rejected exactly as   *)
(* they do in the program.                                                 *)
(***************************************************************************)
EXTENDS Integers, Sequences, FiniteSets, TLC

VARIABLES
    groups,     \* channel layer: set of <<group key, channel>> memberships
    inbox,      \* channel layer: per channel, the events published and not yet handled
    sigConn,    \* signaling consumers: state, room_id, room_group, client_id, close_code
    sigOut,     \* signaling consumers: the last envelope written to the socket
    sigOps,     \* number of connects, frames and disconnects of signaling clients so far
    msgs,       \* chat store: ChatMessage rows, the id is the index
    readBy,     \* chat store: the read_by many-to-many table, <<message id, user id>>
    chatConn,   \* chat consumers: attributes and the position inside the running handler
    chatOut,    \* chat consumers: the last frame written to the socket
    rest,       \* REST requests of the chat views: position and locals
    restResp,   \* the last REST response
    chatOps,    \* number of chat frames and REST requests received so far
    notifs,     \* notification store: Notification rows, the id is the index
    notifConn,  \* notification consumers
    notifOut,   \* notification consumers: frames written to the socket
    caller,     \* callers of send_notification / send_notification_to_multiple_users
    notifOps,   \* number of notification calls and client frames so far
    auth,       \* JWTAuthMiddleware: the handshake being authenticated
    nrest,      \* REST requests of the notification views that are in progress
    nrestResp,  \* the last response of a notification view
    nrestOps,   \* number of requests to the notification views so far
    accounts,   \* CustomUser rows created so far, the id is the index
    sessions,   \* LiveSession rows: the status of each
    join        \* the last response of SessionJoinView

fabricVars == <<groups, inbox>>
sigVars    == <<sigConn, sigOut, sigOps>>
chatVars   == <<msgs, readBy, chatConn, chatOut, rest, restResp, chatOps>>
notifVars  == <<notifs, notifConn, notifOut, caller, notifOps>>
authVars   == <<auth>>
inboxVars  == <<nrest, nrestResp, nrestOps>>
accountVars == <<accounts>>
joinVars   == <<sessions, join>>
vars       == <<groups, inbox, sigConn, sigOut, sigOps, msgs, readBy, chatConn,
                chatOut, rest, restResp, chatOps, notifs, notifConn, notifOut,
                caller, notifOps, auth, nrest, nrestResp, nrestOps, accounts,
                sessions, join>>

(***************************************************************************)
(* Bounds of the model.                                                    *)
(***************************************************************************)
MaxSigOps == 5
MaxChatOps == 2
MaxNotifOps == 2
MaxInboxOps == 3
MaxAccounts == 3

(***************************************************************************)
(* Text.                                                                   *)
(***************************************************************************)
None == <<>>

Letters ==
    {"a","b","c","d","e","f","g","h","i","j","k","l","m","n","o","p","q","r","s",
     "t","u","v","w","x","y","z","A","B","C","D","E","F","G","H","I","J","K","L",
     "M","N","O","P","Q","R","S","T","U","V","W","X","Y","Z"}

Digits == {"0","1","2","3","4","5","6","7","8","9"}

\* A JSON value that is not a string (a number, a list, an object) is the
\* one-element sequence NonStr: truthy, and not an instance of str.
NonStr == <<"#nonstr">>

Digit(d) ==
    CASE d = 0 -> "0" [] d = 1 -> "1" [] d = 2 -> "2" [] d = 3 -> "3" [] d = 4 -> "4"
      [] d = 5 -> "5" [] d = 6 -> "6" [] d = 7 -> "7" [] d = 8 -> "8" [] d = 9 -> "9"

RECURSIVE Str(_)
Str(n) == IF n < 10 THEN <<Digit(n)>> ELSE Str(n \div 10) \o <<Digit(n % 10)>>

Truthy(v) == v # None

(***************************************************************************)
(* Channel layer (channels.layers): group_add, group_discard, group_send.  *)
(***************************************************************************)
SigConns   == {"s1", "s2", "s3"}
ChatConns  == {"c1", "c2"}
NotifConns == {"n1", "n2"}
Channels   == SigConns \cup ChatConns \cup NotifConns

Members(g) == {ch \in Channels : <<g, ch>> \in groups}

group_add(g, ch) == groups \cup {<<g, ch>>}

group_discard(g, ch) == groups \ {<<g, ch>>}

\* Mutant: the event is queued for every channel.
group_send_everyone(g, ev) == [ch \in Channels |-> Append(inbox[ch], ev)]

\* The queues after publishing event ev to group g: one copy per member.
group_send(g, ev) ==
    [ch \in Channels |-> IF ch \in Members(g) THEN Append(inbox[ch], ev) ELSE inbox[ch]]

(***************************************************************************)
(* Signaling relay: core/consumers.py                                      *)
(***************************************************************************)
VALID_GROUP_RE(seg) ==
    /\ Len(seg) > 0
    /\ \A i \in 1..Len(seg) : seg[i] \in Letters \cup Digits \cup {"_", ".", "-"}

\* _validate_segment raises ValueError unless this holds.
_validate_segment(seg) == seg # NonStr /\ VALID_GROUP_RE(seg)

room_group_name(room_id) == <<"r","o","o","m",".">> \o room_id

peer_group_name(room_id, client_id) ==
    <<"r","o","o","m",".">> \o room_id \o <<".","p","e","e","r",".">> \o client_id

\* Session ids a client may put in the path ([^/]+ in core/routing.py).
SigRoomIds == { <<"7">>, <<"7",".","p","e","e","r",".","B">>, <<"7"," ">> }

A == <<"A">>
B == <<"B">>

\* Frames a client may send: type, `from` and `to` (None when the member is absent).
SigFrame(type, from, to) == [type |-> type, from |-> from, to |-> to]

SigFramesIn ==
    { SigFrame("ready", A, None), SigFrame("ready", B, None), SigFrame("ready", None, None),
      SigFrame("offer", A, B), SigFrame("ice-candidate", A, None),
      SigFrame("offer", A, <<"B", " ">>), SigFrame("bye", A, B),
      SigFrame("ready", <<"B", " ">>, None) }

\* The labels a `ready` may carry.
SigLabels == {f.from : f \in {g \in SigFramesIn : g.type = "ready"}} \ {None}

NoEnvelope == [type |-> "none"]

\* raised: the disconnect handler ended with an exception.
SigIdle == [state |-> "idle", room_id |-> None, room_group |-> None,
            client_id |-> None, close_code |-> 0, raised |-> FALSE]

\* Channel names are handed out in this order as connections arrive.
SigOrder(c) == CASE c = "s1" -> 1 [] c = "s2" -> 2 [] c = "s3" -> 3

\* connect, up to and including accept(): the room key is derived and validated.
SigConnect(c, rid) ==
    /\ sigConn[c].state = "idle"
    /\ \A d \in SigConns : SigOrder(d) < SigOrder(c) => sigConn[d].state # "idle"
    /\ sigOps < MaxSigOps
    /\ sigOps' = sigOps + 1
    /\ IF _validate_segment(rid)
       THEN sigConn' = [sigConn EXCEPT ![c] =
                [@ EXCEPT !.state = "accepted", !.room_id = rid,
                          !.room_group = room_group_name(rid)]]
       ELSE sigConn' = [sigConn EXCEPT ![c] =
                [@ EXCEPT !.state = "rejected", !.room_id = rid, !.close_code = 4001]]
    /\ UNCHANGED <<groups, inbox, sigOut>>

\* connect, after accept(): group_add(self.room_group, self.channel_name).
SigJoinRoom(c) ==
    /\ sigConn[c].state = "accepted"
    /\ groups' = group_add(sigConn[c].room_group, c)
    /\ sigConn' = [sigConn EXCEPT ![c].state = "open"]
    /\ UNCHANGED <<inbox, sigOut, sigOps>>

SigEnvelope(c, type, from, to) == [type |-> type, from |-> from, to |-> to, via |-> c]

\* The group a directed envelope is published to.
SigTargetGroup(c, target) == peer_group_name(sigConn[c].room_id, target)

\* receive, type "ready": the label is recorded, the mailbox group joined and
\* the frame published to the room.  peer_group_name raises for a label that is
\* not valid, and either call of the channel layer may raise; whatever is raised
\* is swallowed by receive, and what was done before it stays done.
SigReady(c, from) ==
    LET register == Truthy(from) /\ ~Truthy(sigConn[c].client_id)
        raises   == register /\ ~_validate_segment(from)
        joined   == IF register
                    THEN group_add(peer_group_name(sigConn[c].room_id, from), c)
                    ELSE groups
        ev       == SigEnvelope(c, "ready", from, None)
    IN  /\ sigConn' = IF register THEN [sigConn EXCEPT ![c].client_id = from] ELSE sigConn
        /\ \/ /\ ~raises
              /\ groups' = joined
              /\ inbox' = [ch \in Channels |->
                             IF <<sigConn[c].room_group, ch>> \in groups'
                             THEN Append(inbox[ch], ev) ELSE inbox[ch]]
           \/ /\ ~raises
              /\ groups' = joined
              /\ UNCHANGED inbox
           \/ /\ register
              /\ UNCHANGED <<groups, inbox>>

\* receive, type "offer" / "answer" / "ice-candidate".
SigRelay(c, type, from, to) ==
    LET ev == SigEnvelope(c, type, from, to)
    IN  /\ UNCHANGED <<sigConn, groups>>
        /\ IF Truthy(to)
           THEN IF _validate_segment(to)
                THEN inbox' = group_send(SigTargetGroup(c, to), ev)
                ELSE UNCHANGED inbox
           ELSE inbox' = group_send(sigConn[c].room_group, ev)

\* receive: one frame from the client of connection c.
SigReceive(c, type, from, to) ==
    /\ sigConn[c].state = "open"
    /\ sigOps < MaxSigOps
    /\ sigOps' = sigOps + 1
    /\ UNCHANGED sigOut
    /\ CASE type = "ready" -> SigReady(c, from)
         [] type \in {"offer", "answer", "ice-candidate"} -> SigRelay(c, type, from, to)
         [] OTHER -> UNCHANGED <<sigConn, groups, inbox>>

\* Text frames that json.loads or content.get raises on.
SigBadFrames == {"invalid_json", "non_object"}

\* Mutant: the sender is told about the frame.
SigReceiveBadAnswered(c, kind) ==
    /\ sigConn[c].state = "open"
    /\ sigOps < MaxSigOps
    /\ sigOps' = sigOps + 1
    /\ sigOut' = [sigOut EXCEPT ![c] = [type |-> "error"]]
    /\ UNCHANGED <<sigConn, groups, inbox>>

\* receive, text that is not JSON (json.JSONDecodeError) or JSON that is not an
\* object (AttributeError of content.get): `except ...: pass`.
SigReceiveBad(c, kind) ==
    /\ sigConn[c].state = "open"
    /\ sigOps < MaxSigOps
    /\ sigOps' = sigOps + 1
    /\ UNCHANGED <<sigConn, sigOut, groups, inbox>>

\* signal_message: the handler of an event taken from the channel's queue.
signal_message(c) ==
    /\ sigConn[c].state = "open"
    /\ inbox[c] # <<>>
    /\ sigOut' = [sigOut EXCEPT ![c] = Head(inbox[c])]
    /\ inbox' = [inbox EXCEPT ![c] = Tail(@)]
    /\ UNCHANGED <<groups, sigConn, sigOps>>

\* disconnect: leave the room group (ok: group_discard did not raise) and, if a
\* label is recorded, the personal group.  Nothing in the handler catches an
\* exception: a failed group_discard, or the ValueError of peer_group_name for
\* a recorded label that is not valid, ends the handler.
SigDisconnect(c, ok) ==
    /\ sigConn[c].state = "open"
    /\ LET left == group_discard(sigConn[c].room_group, c)
           registered == Truthy(sigConn[c].client_id)
           valid == _validate_segment(sigConn[c].client_id)
       IN  /\ groups' =
                 IF ~ok THEN groups
                 ELSE IF registered /\ valid
                 THEN left \ {<<peer_group_name(sigConn[c].room_id, sigConn[c].client_id), c>>}
                 ELSE left
           /\ sigConn' = [sigConn EXCEPT ![c].state = "closed",
                                         ![c].raised = ~ok \/ (registered /\ ~valid)]
    /\ inbox' = [inbox EXCEPT ![c] = <<>>]
    /\ sigOps < MaxSigOps
    /\ sigOps' = sigOps + 1
    /\ UNCHANGED sigOut

NextSig ==
    \/ \E c \in SigConns, rid \in SigRoomIds : SigConnect(c, rid)
    \/ \E c \in SigConns : SigJoinRoom(c)
    \/ \E c \in SigConns, f \in SigFramesIn : SigReceive(c, f.type, f.from, f.to)
    \/ \E c \in SigConns, kind \in SigBadFrames : SigReceiveBad(c, kind)
    \/ \E c \in SigConns : signal_message(c)
    \/ \E c \in SigConns, ok \in BOOLEAN : SigDisconnect(c, ok)

SigDirected(e) == e.type \in {"offer", "answer", "ice-candidate"} /\ Truthy(e.to)

\* Connection c registered, by a `ready`, under the peer mailbox of label x in room r.
SigRegistered(c, r, x) ==
    /\ sigConn[c].state \in {"open", "closed"}
    /\ sigConn[c].room_id = r
    /\ sigConn[c].client_id = x

\* C2: a directed envelope (offer, answer or ice-candidate with a `to` label X)
\* sent on a connection of room R is written only to the sockets of connections
\* registered under peer mailbox X of room R.
C2_DirectedOnlyToMailbox ==
    \A c \in SigConns :
        SigDirected(sigOut[c]) =>
            SigRegistered(c, sigConn[sigOut[c].via].room_id, sigOut[c].to)

\* C24: while a signaling connection is open it has a recorded peer label if
\* and only if it is a member of the mailbox group of that label in its room,
\* and it is a member of no mailbox group of its room under another label.
C24_LabelIffMailbox ==
    \A c \in SigConns :
        sigConn[c].state = "open" =>
            \A x \in SigLabels :
                (sigConn[c].client_id = x) <=>
                    (<<peer_group_name(sigConn[c].room_id, x), c>> \in groups)

\* Connection c is in no mailbox group of its room.
SigUnregistered(c) ==
    \A x \in SigLabels : <<peer_group_name(sigConn[c].room_id, x), c>> \notin groups

\* C25: a `ready` with a non-empty `from` on a connection that has not yet
\* registered makes it a member of the mailbox group of (room, from), and the
\* envelope is then queued for every member of the room group, the sender
\* included.
C25_ReadyRegistersAndBroadcasts ==
    [][ \A c \in SigConns, x \in SigLabels :
            (SigReceive(c, "ready", x, None) /\ SigUnregistered(c)) =>
                /\ <<peer_group_name(sigConn[c].room_id, x), c>> \in groups'
                /\ inbox'[c] = Append(inbox[c], SigEnvelope(c, "ready", x, None))
                /\ \A ch \in SigConns :
                      <<sigConn[c].room_group, ch>> \in groups =>
                          inbox'[ch] = Append(inbox[ch], SigEnvelope(c, "ready", x, None))
      ]_vars

\* C26: a signaling connection that has been accepted is a member of its room
\* group (the join comes before the accept), and a connection whose session id
\* is invalid is closed, not accepted, and is a member of no group.
C26_JoinedBeforeAccepted ==
    \A c \in SigConns :
        /\ sigConn[c].state \in {"accepted", "open"} =>
              <<sigConn[c].room_group, c>> \in groups
        /\ (sigConn[c].state # "idle" /\ ~_validate_segment(sigConn[c].room_id)) =>
              /\ sigConn[c].state = "rejected"
              /\ \A x \in groups : x[2] # c

\* C23: room groups and peer mailbox groups do not collide across rooms: an
\* envelope written to the socket of a connection -- directed to a peer label
\* or broadcast to a room -- was sent on a connection of the same room.
C23_NoCrossRoomDelivery ==
    \A c \in SigConns :
        sigOut[c] # NoEnvelope => sigConn[c].room_id = sigConn[sigOut[c].via].room_id

\* The step is the receive of a frame of connection c that is swallowed: text
\* that is not JSON or not an object, a frame of unknown type, a directed frame
\* whose `to` is not a valid label, or a ready that published nothing (an open
\* connection is in its room group, so a ready that is published reaches it).
SigSwallowed(c) ==
    \/ \E kind \in SigBadFrames : SigReceiveBad(c, kind)
    \/ \E f \in SigFramesIn :
          /\ SigReceive(c, f.type, f.from, f.to)
          /\ \/ f.type \notin {"ready", "offer", "answer", "ice-candidate"}
             \/ f.type # "ready" /\ Truthy(f.to) /\ ~_validate_segment(f.to)
             \/ f.type = "ready" /\ inbox' = inbox

\* C40: a signaling frame that is swallowed (unknown type, not valid JSON, or
\* processing that raises) writes nothing to any socket, queues nothing, changes
\* no group membership and leaves the connection open.
C40_SwallowedFramesChangeNothing ==
    [][ \A c \in SigConns :
          SigSwallowed(c) =>
              /\ sigOut' = sigOut
              /\ inbox' = inbox
              /\ groups' = groups
              /\ sigConn'[c].state = "open"
      ]_vars

\* C40, amended: a swallowed frame writes nothing to any socket, queues nothing
\* and leaves the connection open; it changes no group membership, except that
\* a ready that raised after its registration keeps the mailbox it joined.
C40_SwallowedFramesAmended ==
    [][ \A c \in SigConns :
          SigSwallowed(c) =>
              /\ sigOut' = sigOut
              /\ inbox' = inbox
              /\ sigConn'[c].state = "open"
              /\ \/ groups' = groups
                 \/ /\ \E f \in SigFramesIn : /\ f.type = "ready"
                                               /\ SigReceive(c, f.type, f.from, f.to)
                    /\ ~Truthy(sigConn[c].client_id)
                    /\ groups' = group_add(peer_group_name(sigConn[c].room_id,
                                                            sigConn'[c].client_id), c)
      ]_vars

\* C40, witness: an open connection is registered in the mailbox of label A
\* although no ready was ever published in its room (its own queue and socket
\* never saw one): the publish of its ready raised after the registration.
C40_Witness ==
    \E c \in SigConns :
        /\ sigConn[c].state = "open"
        /\ sigConn[c].client_id = A
        /\ <<peer_group_name(sigConn[c].room_id, A), c>> \in groups
        /\ inbox[c] = <<>> /\ sigOut[c] = NoEnvelope

(***************************************************************************)
(* Chat channel: chats/consumers.py, chats/models.py, chats/views.py       *)
(***************************************************************************)
\* Identities the authenticator hands to a consumer: a user id, or anonymous.
Anon == 0
ChatUsers == {1, 2}
is_authenticated(u) == u # Anon

\* Session ids a client may put in the path, and the LiveSession rows that exist.
ChatSessionIds == { <<"1">>, <<"2">>, <<"1", "!">> }
LiveSessions == {1, 2}

DigitVal(ch) ==
    CASE ch = "0" -> 0 [] ch = "1" -> 1 [] ch = "2" -> 2 [] ch = "3" -> 3 [] ch = "4" -> 4
      [] ch = "5" -> 5 [] ch = "6" -> 6 [] ch = "7" -> 7 [] ch = "8" -> 8 [] ch = "9" -> 9

\* The primary key a session id of the path is looked up by (int(session_id)).
RECURSIVE SessionPk(_)
SessionPk(sid) ==
    IF Len(sid) = 1 THEN DigitVal(sid[1])
    ELSE 10 * SessionPk(SubSeq(sid, 1, Len(sid) - 1)) + DigitVal(sid[Len(sid)])

chat_room_group_name(session_id) ==
    <<"c","h","a","t",".","s","e","s","s","i","o","n",".">> \o session_id

\* The optional message_id of mark_read: absent, or an integer.
NoMessageId == [given |-> FALSE, value |-> 0]
MessageId(n) == [given |-> TRUE, value |-> n]
\* `limit` of get_history: the default.
DefaultLimit == 50
HistoryLimits == {DefaultLimit}

MessageIds == {NoMessageId, MessageId(0), MessageId(1)}

\* `if message_id:` -- the ceiling applies when the value is truthy.
CeilingApplies(mid) == mid.given /\ mid.value # 0

MsgIds == 1..Len(msgs)

\* Mutant: deleted messages are not filtered out.
SessionMessagesAll(s) == {m \in MsgIds : msgs[m].session = s}

\* ChatMessage.objects.filter(session_id=..., is_deleted=False)
SessionMessages(s) == {m \in MsgIds : msgs[m].session = s /\ ~msgs[m].is_deleted}

\* .exclude(read_by=user)
ExcludeReadBy(ms, u) == {m \in ms : <<m, u>> \notin readBy}

\* Mutant: the count of all messages of the session (all_messages) is returned.
get_unread_count_all(u, s) == Cardinality(SessionMessages(s))

get_unread_count(u, s) == Cardinality(ExcludeReadBy(SessionMessages(s), u))

\* Mutant: the messages the user has read are not excluded.
messages_query_all(u, s, mid) ==
    IF CeilingApplies(mid) THEN {m \in SessionMessages(s) : m <= mid.value}
    ELSE SessionMessages(s)

\* The queryset of mark_messages_read / mark_session_messages_read.
messages_query(u, s, mid) ==
    LET unread == ExcludeReadBy(SessionMessages(s), u)
    IN  IF CeilingApplies(mid) THEN {m \in unread : m <= mid.value} ELSE unread

RECURSIVE Ascending(_)
Ascending(S) ==
    IF S = {} THEN <<>>
    ELSE LET lo == CHOOSE x \in S : \A y \in S : x <= y
         IN  <<lo>> \o Ascending(S \ {lo})

\* get_chat_history: the `limit` most recent messages, oldest first.
get_chat_history(s, limit) ==
    LET all == Ascending(SessionMessages(s))
    IN  IF Len(all) <= limit THEN all ELSE SubSeq(all, Len(all) - limit + 1, Len(all))

NoFrame == [type |-> "none", message |-> 0, has_unread |-> FALSE, unread_count |-> 0,
            marked_count |-> 0, user_id |-> 0, messages |-> <<>>, text |-> "",
            session_id |-> <<>>]

Frame(type) == [NoFrame EXCEPT !.type = type]

ErrorFrame(text) == [NoFrame EXCEPT !.type = "error", !.text = text]

Whitespace == {" "}

RECURSIVE lstrip(_)
lstrip(t) == IF t # <<>> /\ Head(t) \in Whitespace THEN lstrip(Tail(t)) ELSE t

RECURSIVE rstrip(_)
rstrip(t) ==
    IF t # <<>> /\ t[Len(t)] \in Whitespace THEN rstrip(SubSeq(t, 1, Len(t) - 1)) ELSE t

\* str.strip()
strip(t) == rstrip(lstrip(t))

\* Bodies of a chat_message frame: "", " " and "hi".
ChatBodies == { <<>>, <<" ">>, <<"h", "i">> }

\* Mutant: no body is taken for empty.
EmptyBodyNever(body) == FALSE

\* message_text = data.get('message', '').strip(); `if not message_text:`
EmptyBody(body) == strip(body) = <<>>

\* History of the mark_read calls of a connection, kept for the properties only:
\* the arguments and the reply of the last completed call, the messages that
\* were stored when it began (start_msgs), the messages its user had read when
\* it began (start_read) and when it replied.
NoMarkRead == [valid |-> FALSE, message_id |-> NoMessageId, msgs |-> <<>>,
               read |-> {}, marked_count |-> 0, unread_count |-> 0,
               repeated |-> FALSE]

\* The messages user u is in the read_by of.
UserRead(u) == {m \in 1..Len(msgs) : <<m, u>> \in readBy}

ChatIdle == [state |-> "idle", user |-> Anon, session_id |-> None,
             room_group_name |-> None, is_fully_connected |-> FALSE,
             accepted |-> FALSE, close_code |-> 0, pc |-> "idle",
             msg |-> 0, message_id |-> NoMessageId, pending |-> {}, done |-> {},
             start_msgs |-> <<>>, start_read |-> {}, prev |-> NoMarkRead]

\* Identity and path of a new connection.  Users and sessions are interchangeable,
\* so the first connection is user 1 on session "1"; the second is the same user,
\* another user in the same or in another session, anonymous, or a user on a
\* path whose session id is "1!".
ChatConnectInputs(c) ==
    IF c = "c1"
    THEN {[user |-> 1, session_id |-> <<"1">>]}
    ELSE {[user |-> 1, session_id |-> <<"1">>], [user |-> 2, session_id |-> <<"1">>],
          [user |-> 2, session_id |-> <<"2">>], [user |-> Anon, session_id |-> <<"1">>],
          [user |-> 2, session_id |-> <<"1", "!">>]}

\* The channel layer accepts group names of ASCII alphanumerics, '-', '_' and
\* '.' only; group_add raises for any other name.
GroupAddAccepts(g) ==
    Len(g) > 0 /\ \A i \in 1..Len(g) : g[i] \in Letters \cup Digits \cup {"-", "_", "."}

\* Mutant: the frame does not carry the session id.
EstablishedFrameBare(sid) == Frame("connection_established")

\* connect: {'type': 'connection_established', ..., 'session_id': self.session_id}
EstablishedFrame(sid) == [Frame("connection_established") EXCEPT !.session_id = sid]

ChatOrder(c) == CASE c = "c1" -> 1 [] c = "c2" -> 2

ChatOp == chatOps < MaxChatOps /\ chatOps' = chatOps + 1

\* A user_joined, user_left or user_typing event.  via is the connection that
\* published it; it is kept for the properties only, the handlers never read it.
UserEvent(type, u, via) ==
    [type |-> type, message |-> 0, sender_id |-> 0, user_id |-> u, via |-> via]

\* connect.  Anonymous identities are closed with code 4001 before accept().
\* Otherwise accept(), then group_add (joined: it succeeded), the
\* connection_established frame and the user_joined publish (announced: it
\* succeeded); a failed group_add yields an error frame and close code 4002.
ChatConnect(c, u, sid, joined, announced) ==
    /\ chatConn[c].state = "idle"
    /\ \A d \in ChatConns : ChatOrder(d) < ChatOrder(c) => chatConn[d].state # "idle"
    /\ LET begun == [chatConn[c] EXCEPT !.user = u, !.session_id = sid,
                                        !.room_group_name = chat_room_group_name(sid)]
       IN  IF ~is_authenticated(u)
           THEN /\ joined /\ announced
                /\ chatConn' = [chatConn EXCEPT ![c] =
                       [begun EXCEPT !.state = "rejected", !.close_code = 4001]]
                /\ UNCHANGED <<groups, inbox, chatOut>>
           ELSE IF joined
           THEN /\ GroupAddAccepts(begun.room_group_name)
                /\ chatConn' = [chatConn EXCEPT ![c] =
                       [begun EXCEPT !.state = "joined", !.accepted = TRUE,
                                     !.is_fully_connected = TRUE]]
                /\ groups' = group_add(begun.room_group_name, c)
                /\ chatOut' = [chatOut EXCEPT ![c] = EstablishedFrame(sid)]
                /\ inbox' = IF announced
                            THEN [ch \in Channels |->
                                    IF <<begun.room_group_name, ch>> \in groups'
                                    THEN Append(inbox[ch], UserEvent("user_joined", u, c))
                                    ELSE inbox[ch]]
                            ELSE inbox
           ELSE /\ announced
                /\ chatConn' = [chatConn EXCEPT ![c] =
                       [begun EXCEPT !.state = "rejected", !.accepted = TRUE,
                                     !.close_code = 4002]]
                /\ chatOut' = [chatOut EXCEPT ![c] = ErrorFrame("Failed to join chat room.")]
                /\ UNCHANGED <<groups, inbox>>
    /\ UNCHANGED <<msgs, readBy, rest, restResp, chatOps>>

\* Mutant: user_left is published whoever the user is.
ChatAnnouncesLeftAlways(c) == chatConn[c].room_group_name # None

\* disconnect publishes user_left for these connections.
ChatAnnouncesLeft(c) ==
    is_authenticated(chatConn[c].user) /\ chatConn[c].room_group_name # None

\* disconnect: user_left to the room, then group_discard.
ChatDisconnect(c, announced) ==
    /\ chatConn[c].state \in {"joined", "rejected"}
    /\ chatConn[c].pc = "idle"
    /\ (ChatAnnouncesLeft(c) /\ announced) => GroupAddAccepts(chatConn[c].room_group_name)
    /\ LET sent == IF ChatAnnouncesLeft(c) /\ announced
                   THEN group_send(chatConn[c].room_group_name,
                                   UserEvent("user_left", chatConn[c].user, c))
                   ELSE inbox
       IN  inbox' = [sent EXCEPT ![c] = <<>>]
    /\ groups' = group_discard(chatConn[c].room_group_name, c)
    /\ chatConn' = [chatConn EXCEPT ![c].state = "closed"]
    /\ UNCHANGED <<msgs, readBy, chatOut, rest, restResp, chatOps>>

\* A joined consumer between two handlers: the next frame or event is taken.
ChatReady(c) == chatConn[c].state = "joined" /\ chatConn[c].pc = "idle"

\* receive, chat_message with an empty body: an error frame, nothing stored.
ChatEmptyMessage(c) ==
    /\ ChatReady(c)
    /\ ChatOp
    /\ chatOut' = [chatOut EXCEPT ![c] = ErrorFrame("Message cannot be empty")]
    /\ UNCHANGED <<groups, inbox, msgs, readBy, chatConn, rest, restResp>>

\* receive: `except Exception` sends this frame.
ProcessingFailed == ErrorFrame("Failed to process message")

\* save_message: LiveSession.objects.get(id=session_id), which raises for a
\* session that does not exist; then ChatMessage.save, first statement: the row
\* is inserted.
ChatSaveInsert(c) ==
    /\ ChatReady(c)
    /\ ChatOp
    /\ IF SessionPk(chatConn[c].session_id) \in LiveSessions
       THEN /\ msgs' = Append(msgs, [session |-> SessionPk(chatConn[c].session_id),
                                     sender |-> chatConn[c].user, is_deleted |-> FALSE])
            /\ chatConn' = [chatConn EXCEPT ![c].pc = "inserted", ![c].msg = Len(msgs) + 1]
            /\ UNCHANGED chatOut
       ELSE /\ chatOut' = [chatOut EXCEPT ![c] = ProcessingFailed]
            /\ UNCHANGED <<msgs, chatConn>>
    /\ UNCHANGED <<groups, inbox, readBy, rest, restResp>>

\* receive, chat_message with the given body.
ChatMessageFrame(c, body) ==
    IF EmptyBody(body) THEN ChatEmptyMessage(c) ELSE ChatSaveInsert(c)

\* Mutant: save does not add the sender.
SenderReadByNone(c) == {}

\* The rows ChatMessage.save adds to read_by for the new message of connection c.
SenderReadBy(c) == {<<chatConn[c].msg, msgs[chatConn[c].msg].sender>>}

ChatEvent(c) == [type |-> "chat_message_broadcast", message |-> chatConn[c].msg,
                 sender_id |-> chatConn[c].user, user_id |-> 0, via |-> c]

\* Mutant: a message whose publish failed is taken back.
ChatSaveAddSenderUndo(c, ok) ==
    /\ chatConn[c].pc = "inserted"
    /\ readBy' = readBy \cup SenderReadBy(c)
    /\ IF ok
       THEN /\ inbox' = group_send(chatConn[c].room_group_name, ChatEvent(c))
            /\ UNCHANGED <<chatOut, msgs>>
       ELSE /\ chatOut' = [chatOut EXCEPT ![c] =
                               ErrorFrame("Failed to send message. Please try again.")]
            /\ msgs' = [msgs EXCEPT ![chatConn[c].msg].is_deleted = TRUE]
            /\ UNCHANGED inbox
    /\ chatConn' = [chatConn EXCEPT ![c].pc = "idle", ![c].msg = 0]
    /\ UNCHANGED <<groups, rest, restResp, chatOps>>

\* ChatMessage.save, second statement: self.read_by.add(self.sender); then
\* receive publishes chat_message_broadcast to the room (ok: the publish
\* succeeded; otherwise the sender gets an error frame).
ChatSaveAddSender(c, ok) ==
    /\ chatConn[c].pc = "inserted"
    /\ readBy' = readBy \cup SenderReadBy(c)
    /\ IF ok
       THEN /\ inbox' = group_send(chatConn[c].room_group_name, ChatEvent(c))
            /\ UNCHANGED chatOut
       ELSE /\ chatOut' = [chatOut EXCEPT ![c] =
                               ErrorFrame("Failed to send message. Please try again.")]
            /\ UNCHANGED inbox
    /\ chatConn' = [chatConn EXCEPT ![c].pc = "idle", ![c].msg = 0]
    /\ UNCHANGED <<groups, msgs, rest, restResp, chatOps>>

\* The unread count a consumer reports: get_unread_count(self.session_id) for self.user.
ChatUnread(c) == get_unread_count(chatConn[c].user, SessionPk(chatConn[c].session_id))

\* receive, get_history: the history, the unread count, then the chat_history frame.
ChatHistory(c, limit) ==
    /\ ChatReady(c)
    /\ ChatOp
    /\ chatOut' = [chatOut EXCEPT ![c] =
          [Frame("chat_history") EXCEPT
              !.messages = get_chat_history(SessionPk(chatConn[c].session_id), limit),
              !.has_unread = TRUE,
              !.unread_count = ChatUnread(c)]]
    /\ UNCHANGED <<groups, inbox, msgs, readBy, chatConn, rest, restResp>>

\* receive, mark_read: mark_messages_read looks the session up
\* (LiveSession.objects.get raises for a session that does not exist) and
\* evaluates its queryset.
ChatMarkQuery(c, mid) ==
    /\ ChatReady(c)
    /\ ChatOp
    /\ IF SessionPk(chatConn[c].session_id) \in LiveSessions
       THEN /\ chatConn' = [chatConn EXCEPT ![c].pc = "marking", ![c].message_id = mid,
                  ![c].done = {},
                  ![c].start_read = UserRead(chatConn[c].user),
                  ![c].start_msgs = msgs,
                  ![c].pending = messages_query(chatConn[c].user,
                                                SessionPk(chatConn[c].session_id), mid)]
            /\ UNCHANGED chatOut
       ELSE /\ chatOut' = [chatOut EXCEPT ![c] = ProcessingFailed]
            /\ UNCHANGED chatConn
    /\ UNCHANGED <<groups, inbox, msgs, readBy, rest, restResp>>

Lowest(S) == CHOOSE x \in S : \A y \in S : x <= y

\* Mutant: the readers of the message are overwritten by the new reader.
read_by_set(rb, m, u) == {p \in rb : p[1] # m} \cup {<<m, u>>}

\* message.read_by.add(user): one row is added to the many-to-many table; adding
\* a row that is there already changes nothing.
read_by_add(rb, m, u) == rb \cup {<<m, u>>}

\* mark_messages_read, one turn of the loop: message.read_by.add(self.user).
ChatMarkAdd(c) ==
    /\ chatConn[c].pc = "marking"
    /\ chatConn[c].pending # {}
    /\ LET m == Lowest(chatConn[c].pending)
       IN  /\ readBy' = read_by_add(readBy, m, chatConn[c].user)
           /\ chatConn' = [chatConn EXCEPT ![c].pending = @ \ {m},
                                           ![c].done = @ \cup {m}]
    /\ UNCHANGED <<groups, inbox, msgs, chatOut, rest, restResp, chatOps>>

\* receive, mark_read: the updated unread count, then the messages_marked_read frame.
ChatMarkReply(c) ==
    /\ chatConn[c].pc = "marking"
    /\ chatConn[c].pending = {}
    /\ chatOut' = [chatOut EXCEPT ![c] =
          [Frame("messages_marked_read") EXCEPT
              !.marked_count = Cardinality(chatConn[c].done),
              !.has_unread = TRUE,
              !.unread_count = ChatUnread(c)]]
    /\ chatConn' = [chatConn EXCEPT ![c].pc = "idle",
          ![c].prev = [valid |-> TRUE, message_id |-> chatConn[c].message_id,
                       msgs |-> chatConn[c].start_msgs,
                       read |-> UserRead(chatConn[c].user),
                       marked_count |-> Cardinality(chatConn[c].done),
                       unread_count |-> ChatUnread(c),
                       repeated |-> /\ chatConn[c].prev.valid
                                    /\ chatConn[c].prev.message_id = chatConn[c].message_id
                                    /\ chatConn[c].prev.msgs = msgs
                                    /\ chatConn[c].start_read = chatConn[c].prev.read]]
    /\ UNCHANGED <<groups, inbox, msgs, readBy, rest, restResp, chatOps>>

\* Mutant: the unread count is added for the sender too.
BroadcastFrameAlways(c, ev) ==
    [Frame("chat_message") EXCEPT !.message = ev.message, !.has_unread = TRUE,
                                  !.unread_count = ChatUnread(c)]

\* chat_message_broadcast: the unread count is added for a receiving user only.
BroadcastFrame(c, ev) ==
    IF ev.sender_id = chatConn[c].user
    THEN [Frame("chat_message") EXCEPT !.message = ev.message]
    ELSE [Frame("chat_message") EXCEPT !.message = ev.message, !.has_unread = TRUE,
                                       !.unread_count = ChatUnread(c)]

\* Mutant: the handler is run for the event queued last.
chat_message_broadcast_last(c) ==
    /\ ChatReady(c)
    /\ inbox[c] # <<>>
    /\ inbox[c][Len(inbox[c])].type = "chat_message_broadcast"
    /\ chatOut' = [chatOut EXCEPT ![c] = BroadcastFrame(c, inbox[c][Len(inbox[c])])]
    /\ inbox' = [inbox EXCEPT ![c] = SubSeq(@, 1, Len(@) - 1)]
    /\ UNCHANGED <<groups, msgs, readBy, chatConn, rest, restResp, chatOps>>

\* chat_message_broadcast: the events of a channel are handled in the order
\* they were queued, one at a time.
chat_message_broadcast(c) ==
    /\ ChatReady(c)
    /\ inbox[c] # <<>>
    /\ Head(inbox[c]).type = "chat_message_broadcast"
    /\ chatOut' = [chatOut EXCEPT ![c] = BroadcastFrame(c, Head(inbox[c]))]
    /\ inbox' = [inbox EXCEPT ![c] = Tail(@)]
    /\ UNCHANGED <<groups, msgs, readBy, chatConn, rest, restResp, chatOps>>

\* receive, text that is not JSON: `except json.JSONDecodeError` sends an error
\* frame; nothing else happens.
ChatInvalidJson(c) ==
    /\ ChatReady(c)
    /\ ChatOp
    /\ chatOut' = [chatOut EXCEPT ![c] = ErrorFrame("Invalid message format")]
    /\ UNCHANGED <<groups, inbox, msgs, readBy, chatConn, rest, restResp>>

\* receive, typing: user_typing is published to the room (ok: the publish
\* succeeded); a failure is swallowed and nothing is written to the socket.
ChatTyping(c, ok) ==
    /\ ChatReady(c)
    /\ ChatOp
    /\ inbox' = IF ok
                THEN group_send(chatConn[c].room_group_name,
                                UserEvent("user_typing", chatConn[c].user, c))
                ELSE inbox
    /\ UNCHANGED <<groups, msgs, readBy, chatConn, chatOut, rest, restResp>>

\* user_joined / user_left / user_typing: `if event['user_id'] != self.user.id`
PresenceSuppressed(c, ev) == ev.user_id = chatConn[c].user

\* user_joined / user_left / user_typing: forwarded unless the event is about
\* the connection's own user.
user_presence(c) ==
    /\ ChatReady(c)
    /\ inbox[c] # <<>>
    /\ Head(inbox[c]).type \in {"user_joined", "user_left", "user_typing"}
    /\ chatOut' = IF ~PresenceSuppressed(c, Head(inbox[c]))
                  THEN [chatOut EXCEPT ![c] =
                          [Frame(Head(inbox[c]).type) EXCEPT !.user_id = Head(inbox[c]).user_id]]
                  ELSE chatOut
    /\ inbox' = [inbox EXCEPT ![c] = Tail(@)]
    /\ UNCHANGED <<groups, msgs, readBy, chatConn, rest, restResp, chatOps>>

(***************************************************************************)
(* REST views of the chat: chats/views.py                                  *)
(***************************************************************************)
\* The authenticated user of a REST request.
RestUsers == {2}

RestIdle == [op |-> "none", user |-> Anon, session |-> 0, pc |-> "idle",
             message_id |-> NoMessageId, pending |-> {}, done |-> {}]

NoResponse == [op |-> "none", user |-> Anon, session |-> 0, unread_count |-> 0,
               marked_count |-> 0]

\* GET session/<id>/unread-count
unread_count(u, s) ==
    /\ rest.pc = "idle"
    /\ ChatOp
    /\ s \in LiveSessions
    /\ restResp' = [NoResponse EXCEPT !.op = "unread_count", !.user = u, !.session = s,
                                      !.unread_count = get_unread_count(u, s)]
    /\ UNCHANGED <<groups, inbox, msgs, readBy, chatConn, chatOut, rest>>

\* POST session/<id>/mark-read: the queryset is evaluated.
RestMarkQuery(u, s, mid) ==
    /\ rest.pc = "idle"
    /\ ChatOp
    /\ s \in LiveSessions
    /\ rest' = [RestIdle EXCEPT !.op = "mark_read", !.user = u, !.session = s,
                                !.pc = "marking", !.message_id = mid,
                                !.pending = messages_query(u, s, mid)]
    /\ UNCHANGED <<groups, inbox, msgs, readBy, chatConn, chatOut, restResp>>

\* mark_session_messages_read, one turn of the loop.
RestMarkAdd ==
    /\ rest.pc = "marking"
    /\ rest.pending # {}
    /\ LET m == Lowest(rest.pending)
       IN  /\ readBy' = read_by_add(readBy, m, rest.user)
           /\ rest' = [rest EXCEPT !.pending = @ \ {m}, !.done = @ \cup {m}]
    /\ UNCHANGED <<groups, inbox, msgs, chatConn, chatOut, restResp, chatOps>>

\* mark_session_messages_read: the response.
RestMarkReply ==
    /\ rest.pc = "marking"
    /\ rest.pending = {}
    /\ restResp' = [NoResponse EXCEPT !.op = "mark_read", !.user = rest.user,
                                      !.session = rest.session,
                                      !.marked_count = Cardinality(rest.done)]
    /\ rest' = [rest EXCEPT !.pc = "idle"]
    /\ UNCHANGED <<groups, inbox, msgs, readBy, chatConn, chatOut, chatOps>>

\* POST <pk>/delete_message: soft delete by the sender.
delete_message(u, m) ==
    /\ ChatOp
    /\ m \in MsgIds
    /\ msgs[m].sender = u
    /\ msgs' = [msgs EXCEPT ![m].is_deleted = TRUE]
    /\ UNCHANGED <<groups, inbox, readBy, chatConn, chatOut, rest, restResp>>

NextChat ==
    \/ \E c \in ChatConns, joined \in BOOLEAN, announced \in BOOLEAN :
          \E i \in ChatConnectInputs(c) : ChatConnect(c, i.user, i.session_id, joined, announced)
    \/ \E c \in ChatConns, announced \in BOOLEAN : ChatDisconnect(c, announced)
    \/ \E c \in ChatConns, body \in ChatBodies : ChatMessageFrame(c, body)
    \/ \E c \in ChatConns, ok \in BOOLEAN : ChatSaveAddSender(c, ok)
    \/ \E c \in ChatConns, limit \in HistoryLimits : ChatHistory(c, limit)
    \/ \E c \in ChatConns, mid \in MessageIds : ChatMarkQuery(c, mid)
    \/ \E c \in ChatConns : ChatMarkAdd(c)
    \/ \E c \in ChatConns : ChatMarkReply(c)
    \/ \E c \in ChatConns : chat_message_broadcast(c)
    \/ \E c \in ChatConns : user_presence(c)
    \/ \E u \in RestUsers, s \in LiveSessions : unread_count(u, s)
    \/ \E u \in RestUsers, s \in LiveSessions, mid \in MessageIds : RestMarkQuery(u, s, mid)
    \/ RestMarkAdd
    \/ RestMarkReply
    \/ \E u \in RestUsers, m \in MsgIds : delete_message(u, m)

\* Connections to the chat of session 3, which does not exist, or to the chat
\* of session 1.
ChatMissingInputs(c) ==
    LET u == IF c = "c1" THEN 1 ELSE 2
    IN  {[user |-> u, session_id |-> <<"3">>], [user |-> u, session_id |-> <<"1">>]}

\* The frames, well-formed or not, of connections of which some are on a
\* session that does not exist.
NextMissing ==
    \/ \E c \in ChatConns, joined \in BOOLEAN, announced \in BOOLEAN :
          \E i \in ChatMissingInputs(c) : ChatConnect(c, i.user, i.session_id, joined, announced)
    \/ \E c \in ChatConns, body \in ChatBodies : ChatMessageFrame(c, body)
    \/ \E c \in ChatConns, ok \in BOOLEAN : ChatSaveAddSender(c, ok)
    \/ \E c \in ChatConns, limit \in HistoryLimits : ChatHistory(c, limit)
    \/ \E c \in ChatConns, mid \in MessageIds : ChatMarkQuery(c, mid)
    \/ \E c \in ChatConns : ChatMarkAdd(c)
    \/ \E c \in ChatConns : ChatMarkReply(c)
    \/ \E c \in ChatConns : ChatInvalidJson(c)
    \/ \E c \in ChatConns : chat_message_broadcast(c)
    \/ \E c \in ChatConns : user_presence(c)

\* Connections, chat_message and get_history frames and the delivery of events.
NextTalk ==
    \/ \E c \in ChatConns, joined \in BOOLEAN, announced \in BOOLEAN :
          \E i \in ChatConnectInputs(c) : ChatConnect(c, i.user, i.session_id, joined, announced)
    \/ \E c \in ChatConns, body \in ChatBodies : ChatMessageFrame(c, body)
    \/ \E c \in ChatConns, ok \in BOOLEAN : ChatSaveAddSender(c, ok)
    \/ \E c \in ChatConns, limit \in HistoryLimits : ChatHistory(c, limit)
    \/ \E c \in ChatConns : chat_message_broadcast(c)
    \/ \E c \in ChatConns : user_presence(c)

\* Connections, disconnections, typing frames and the delivery of their events.
NextPresence ==
    \/ \E c \in ChatConns, joined \in BOOLEAN, announced \in BOOLEAN :
          \E i \in ChatConnectInputs(c) : ChatConnect(c, i.user, i.session_id, joined, announced)
    \/ \E c \in ChatConns, announced \in BOOLEAN : ChatDisconnect(c, announced)
    \/ \E c \in ChatConns, ok \in BOOLEAN : ChatTyping(c, ok)
    \/ \E c \in ChatConns : user_presence(c)

(***************************************************************************)
(* Properties of the chat channel.                                         *)
(***************************************************************************)
read_by(m) == {u \in ChatUsers \cup {Anon} : <<m, u>> \in readBy}

\* The number of non-deleted messages of session s that user u has not read.
Unread(u, s) ==
    Cardinality({m \in MsgIds : msgs[m].session = s /\ ~msgs[m].is_deleted
                                /\ u \notin read_by(m)})

ChatSession(c) == SessionPk(chatConn[c].session_id)

\* C1: every stored chat message has its sender in its read-by set, in every
\* state of the store that another connection or request can observe.
C1_SenderInReadBy == \A m \in MsgIds : msgs[m].sender \in read_by(m)

\* C3: every unread count reported -- in a chat_history frame, a
\* messages_marked_read frame, a chat_message frame or the response of the REST
\* unread-count endpoint -- equals the number of non-deleted messages of the
\* session that the user has not read, in the store at the time of the call.
C3_UnreadCountFromStore ==
    [][ /\ \A c \in ChatConns :
              (\/ \E limit \in HistoryLimits : ChatHistory(c, limit)
               \/ ChatMarkReply(c)
               \/ (chat_message_broadcast(c) /\ chatOut'[c].has_unread))
              => /\ chatOut'[c].has_unread
                 /\ chatOut'[c].unread_count = Unread(chatConn[c].user, ChatSession(c))'
        /\ \A u \in RestUsers, s \in LiveSessions :
              unread_count(u, s)
              => /\ restResp'.user = u /\ restResp'.session = s
                 /\ restResp'.unread_count = Unread(u, s)'
      ]_vars

\* C3, witness: a report of a count that is not zero.
C3_Witness ==
    \/ restResp.op = "unread_count" /\ restResp.unread_count > 0
    \/ \E c \in ChatConns : chatOut[c].type = "chat_history" /\ chatOut[c].unread_count > 0

\* C4: a mark_read with a ceiling id0 adds the user to the read-by set of no
\* message with an id above id0, for every integer id0 (0 included).
C4_CeilingRespected ==
    /\ \A c \in ChatConns :
          chatConn[c].message_id.given =>
              \A m \in chatConn[c].pending \cup chatConn[c].done :
                  m <= chatConn[c].message_id.value
    /\ rest.message_id.given =>
          \A m \in rest.pending \cup rest.done : m <= rest.message_id.value

\* Message m is stored with its sender in read-by.
Persisted(m) == m \in MsgIds /\ msgs[m].sender \in read_by(m)

\* C5: a chat_message event that is on its way to a connection, or was written
\* to its socket, is about a message that is stored with its sender in read-by.
C5_PersistedBeforePublished ==
    \A c \in ChatConns :
        /\ \A i \in 1..Len(inbox[c]) :
              inbox[c][i].type = "chat_message_broadcast" => Persisted(inbox[c][i].message)
        /\ chatOut[c].type = "chat_message" => Persisted(chatOut[c].message)

\* C5, witness: a connection of another user has received the chat_message event.
C5_Witness ==
    \E c \in ChatConns :
        /\ chatOut[c].type = "chat_message"
        /\ msgs[chatOut[c].message].sender # chatConn[c].user

\* C6: the chat_message frame of a recipient other than the sender carries the
\* recipient's unread count as it is in the store when the event is delivered;
\* the sender's copy carries no unread count.
C6_UnreadAtDelivery ==
    [][ \A c \in ChatConns :
            chat_message_broadcast(c) =>
                IF Head(inbox[c]).sender_id = chatConn[c].user
                THEN ~chatOut'[c].has_unread
                ELSE /\ chatOut'[c].has_unread
                     /\ chatOut'[c].unread_count = Unread(chatConn[c].user, ChatSession(c))
      ]_vars

\* C6, witness: the recipient read the message before the event was delivered, so
\* the count delivered (0) is not the count at creation (1).
C6_Witness ==
    \E c \in ChatConns :
        /\ chatOut[c].type = "chat_message"
        /\ chatOut[c].has_unread
        /\ chatOut[c].unread_count = 0
        /\ msgs[chatOut[c].message].session = ChatSession(c)

PresenceTypes == {"user_joined", "user_left"}

\* C7: an anonymous chat connection is closed with code 4001 without being
\* accepted; it joins no group, receives no event and no frame, stores no
\* message, and no user_joined or user_left is published for it.
C7_AnonymousRejected ==
    /\ \A c \in ChatConns :
          (chatConn[c].state # "idle" /\ ~is_authenticated(chatConn[c].user)) =>
              /\ chatConn[c].state \in {"rejected", "closed"}
              /\ chatConn[c].close_code = 4001
              /\ ~chatConn[c].accepted
              /\ \A g \in {x[1] : x \in groups} : c \notin Members(g)
              /\ inbox[c] = <<>>
              /\ chatOut[c] = NoFrame
    /\ \A m \in MsgIds : is_authenticated(msgs[m].sender)
    /\ \A c \in ChatConns :
          /\ \A i \in 1..Len(inbox[c]) :
                inbox[c][i].type \in PresenceTypes => is_authenticated(inbox[c][i].user_id)
          /\ chatOut[c].type \in PresenceTypes => is_authenticated(chatOut[c].user_id)

\* C7, witness: an anonymous connection was closed and has disconnected while
\* another connection is joined to the room of the same session.
C7_Witness ==
    \E c, d \in ChatConns :
        /\ ~is_authenticated(chatConn[c].user)
        /\ chatConn[c].state = "closed"
        /\ chatConn[d].state = "joined"
        /\ chatConn[d].room_group_name = chatConn[c].room_group_name

\* The step queues event ev for exactly the chat connections in `members`.
ChatQueuedFor(members, ev) ==
    \A ch \in ChatConns :
        inbox'[ch] = IF ch \in members THEN Append(inbox[ch], ev) ELSE inbox[ch]

\* C11: a broadcast to a room group is queued for exactly the connections that
\* are joined to the group when it is published: the chat_message event of a
\* stored message, the user_joined event of a connect (the new member included)
\* and the user_left event of a disconnect (whose own queue ends with it); a
\* connection that is not joined holds no event, and a connection that joins
\* starts with nothing but the user_joined event of its own connect.
C11_BroadcastToCurrentMembers ==
    [][ \A c \in ChatConns :
          /\ ChatSaveAddSender(c, TRUE) =>
                ChatQueuedFor(Members(chatConn[c].room_group_name), ChatEvent(c))
          /\ (ChatDisconnect(c, TRUE) /\ ChatAnnouncesLeft(c)) =>
                /\ inbox'[c] = <<>>
                /\ \A ch \in ChatConns \ {c} :
                      inbox'[ch] = IF ch \in Members(chatConn[c].room_group_name)
                                   THEN Append(inbox[ch],
                                               UserEvent("user_left", chatConn[c].user, c))
                                   ELSE inbox[ch]
          /\ (chatConn[c].state = "idle" /\ chatConn'[c].state = "joined") =>
                /\ \/ inbox' = inbox
                   \/ ChatQueuedFor(Members(chatConn'[c].room_group_name) \cup {c},
                                    UserEvent("user_joined", chatConn'[c].user, c))
                /\ chatOut'[c].type = "connection_established"
          /\ chatConn'[c].state # "joined" => inbox'[c] = <<>>
      ]_vars

\* C11, witness: one connection received the chat_message event of a message; a
\* connection that joined the room afterwards holds no such event and obtained
\* the message through get_history.
C11_Witness ==
    \E c, d \in ChatConns :
        /\ chatOut[c].type = "chat_message"
        /\ chatOut[d].type = "chat_history"
        /\ chatOut[d].messages = <<chatOut[c].message>>
        /\ inbox[d] = <<>>

\* Connection c is replying to a mark_read that follows a completed mark_read
\* of the same connection (same user, same session) with the same arguments:
\* no message was created or deleted since the first call began, and nothing
\* but the two calls changed what the user has read.
SecondMarkRead(c) ==
    /\ chatConn[c].pc = "marking"
    /\ chatConn[c].pending = {}
    /\ chatConn[c].prev.valid
    /\ chatConn[c].prev.message_id = chatConn[c].message_id
    /\ chatConn[c].prev.msgs = msgs
    /\ chatConn[c].start_read = chatConn[c].prev.read
    /\ UserRead(chatConn[c].user) = chatConn[c].start_read \cup chatConn[c].done

\* C12: the second of two successive mark_read calls with the same arguments
\* marks nothing, changes no read-by set, and reports marked_count 0 and the
\* unread_count the first call reported.
C12_MarkReadIdempotent ==
    [][ \A c \in ChatConns :
            (SecondMarkRead(c) /\ ChatMarkReply(c)) =>
                /\ chatConn[c].done = {}
                /\ chatOut'[c].type = "messages_marked_read"
                /\ chatOut'[c].marked_count = 0
                /\ chatOut'[c].unread_count = chatConn[c].prev.unread_count
      ]_vars

\* C12, witness: the second call has replied after a first call that marked a
\* message and left another one unread.
C12_Witness ==
    \E c \in ChatConns :
        /\ chatConn[c].pc = "idle"
        /\ chatConn[c].prev.repeated
        /\ chatConn[c].prev.msgs = msgs
        /\ chatConn[c].prev.read # {}
        /\ chatOut[c].type = "messages_marked_read"
        /\ chatOut[c].marked_count = 0
        /\ chatOut[c].unread_count = 1

C13_EmptyMessageRejected ==
    [][ \A c \in ChatConns :
            ChatMessageFrame(c, <<>>) =>
                /\ chatOut'[c] = ErrorFrame("Message cannot be empty")
                /\ \A d \in ChatConns \ {c} : chatOut'[d] = chatOut[d]
                /\ msgs' = msgs
                /\ readBy' = readBy
                /\ inbox' = inbox
                /\ groups' = groups
                /\ chatConn'[c].state = "joined"
                /\ chatConn'[c].pc = "idle"
      ]_vars

\* C13, witness: a connection got the error frame while another connection is
\* joined to the same room, and nothing is stored.
C13_Witness ==
    \E c, d \in ChatConns :
        /\ c # d
        /\ chatOut[c] = ErrorFrame("Message cannot be empty")
        /\ chatConn[c].state = "joined"
        /\ chatConn[d].state = "joined"
        /\ chatConn[d].room_group_name = chatConn[c].room_group_name
        /\ msgs = <<>>
        /\ inbox[d] = <<>>

\* C32: whatever the interleaving of mark_read operations (WebSocket or REST,
\* same or different users) and message creations, no row of read_by is ever
\* removed; a row is added only for the sender of a message being saved or for
\* the user of a mark_read whose queryset covered the message; and when a
\* mark_read replies, every message it covered is read by its user, and when a
\* save ends the sender has read the message.
C32_NoReadMarkLost ==
    [][ /\ readBy \subseteq readBy'
        /\ \A p \in readBy' \ readBy :
              \/ \E c \in ChatConns : chatConn[c].pc = "inserted" /\ p \in SenderReadBy(c)
              \/ \E c \in ChatConns : /\ chatConn[c].pc = "marking"
                                       /\ p[1] \in chatConn[c].pending
                                       /\ p[2] = chatConn[c].user
              \/ rest.pc = "marking" /\ p[1] \in rest.pending /\ p[2] = rest.user
        /\ \A c \in ChatConns :
              /\ ChatMarkReply(c) =>
                    \A m \in chatConn[c].done : <<m, chatConn[c].user>> \in readBy'
              /\ ChatMarkAdd(c) =>
                    <<Lowest(chatConn[c].pending), chatConn[c].user>> \in readBy'
              /\ (\E ok \in BOOLEAN : ChatSaveAddSender(c, ok)) =>
                    <<chatConn[c].msg, chatConn[c].user>> \in readBy'
        /\ RestMarkAdd => <<Lowest(rest.pending), rest.user>> \in readBy'
        /\ RestMarkReply => \A m \in rest.done : <<m, rest.user>> \in readBy'
      ]_vars

\* C32, witness: a mark_read over the WebSocket and one over REST, by different
\* users, overlapped (both had evaluated their queryset before either added a
\* row); each marked one message and every message is read by both users.
C32_Witness ==
    \E c \in ChatConns :
        /\ chatConn[c].pc = "marking" /\ rest.pc = "marking"
        /\ chatConn[c].pending = {} /\ rest.pending = {}
        /\ Cardinality(chatConn[c].done) = 1 /\ Cardinality(rest.done) = 1
        /\ chatConn[c].start_read \cap chatConn[c].done = {}
        /\ chatConn[c].user # rest.user
        /\ \A m \in MsgIds : read_by(m) = {chatConn[c].user, rest.user}

\* C33: the counts returned by mark_read count each (user, message) pair at most
\* once, so that the counts of concurrent calls of one user add up to the number
\* of messages that gained the user: every turn of the loop that increments
\* marked_count adds a row to read_by that was not there.
C33_CountedOnce ==
    [][ /\ \A c \in ChatConns :
              ChatMarkAdd(c) =>
                  <<Lowest(chatConn[c].pending), chatConn[c].user>> \notin readBy
        /\ RestMarkAdd => <<Lowest(rest.pending), rest.user>> \notin readBy
      ]_vars

\* The chat_message events of connection c in a queue.
ChatEventsOf(q, c) ==
    {i \in 1..Len(q) : q[i].type = "chat_message_broadcast" /\ q[i].via = c}

C35_FailedBroadcastKeepsMessage ==
    [][ /\ \A c \in ChatConns :
              /\ ChatSaveAddSender(c, FALSE) =>
                    /\ chatOut'[c].type = "error"
                    /\ chatConn'[c].state = "joined"
                    /\ inbox' = inbox
                    /\ msgs' = msgs
                    /\ ~msgs'[chatConn[c].msg].is_deleted
              /\ (\E limit \in HistoryLimits : ChatHistory(c, limit)) =>
                    LET s == SessionPk(chatConn[c].session_id)
                        kept == {m \in MsgIds : msgs[m].session = s /\ ~msgs[m].is_deleted}
                    IN  /\ {chatOut'[c].messages[i] : i \in 1..Len(chatOut'[c].messages)} = kept
                        /\ chatOut'[c].unread_count =
                              Cardinality({m \in kept : chatConn[c].user \notin read_by(m)})
        /\ \A ch \in ChatConns : \A i \in 1..Len(inbox'[ch]) :
              ( /\ inbox'[ch][i].type = "chat_message_broadcast"
                /\ \A j \in 1..Len(inbox[ch]) : inbox[ch][j] # inbox'[ch][i] ) =>
                    \E c \in ChatConns : /\ ChatSaveAddSender(c, TRUE)
                                         /\ chatConn[c].msg = inbox'[ch][i].message
        /\ Len(msgs') >= Len(msgs) /\ SubSeq(msgs', 1, Len(msgs)) = msgs
      ]_vars

\* C35, witness: the broadcast of message 1 failed; a connection of another
\* user in the room then asked for the history and was written message 1 with
\* an unread count of 1, and no chat_message event is queued anywhere.
C35_Witness ==
    \E c, d \in ChatConns :
        /\ c # d
        /\ chatOut[c] = ErrorFrame("Failed to send message. Please try again.")
        /\ chatConn[c].state = "joined" /\ chatConn[c].pc = "idle"
        /\ Len(msgs) = 1
        /\ chatOut[d].type = "chat_history" /\ chatOut[d].messages = <<1>>
        /\ chatOut[d].unread_count = 1
        /\ \A ch \in ChatConns : ChatEventsOf(inbox[ch], c) = {}

\* C36: when a joined connection disconnects and the publish succeeds, user_left
\* is published while the connection is still in the room group: exactly one
\* user_left event of that disconnect is queued for every other connection of
\* the room, and the connection has left the group afterwards; and each of
\* those connections is written the user_left frame when it handles the event.
C36_UserLeftBeforeLeaving ==
    [][ \A c \in ChatConns :
          /\ (ChatDisconnect(c, TRUE) /\ chatConn[c].state = "joined") =>
                /\ c \in Members(chatConn[c].room_group_name)
                /\ \A d \in (Members(chatConn[c].room_group_name) \cap ChatConns) \ {c} :
                      inbox'[d] = Append(inbox[d], UserEvent("user_left", chatConn[c].user, c))
                /\ <<chatConn[c].room_group_name, c>> \notin groups'
          /\ ( /\ user_presence(c)
               /\ Head(inbox[c]).type = "user_left"
               /\ Head(inbox[c]).via # c ) =>
                chatOut'[c] = [Frame("user_left") EXCEPT !.user_id = Head(inbox[c]).user_id]
      ]_vars

\* C37: a user_left event is published for a connection only if the connection
\* had joined the room group: the disconnect of a connection that is not joined
\* (anonymous, or closed because its room join failed) queues nothing for any
\* other connection.
C37_UserLeftOnlyIfJoined ==
    [][ \A c \in ChatConns :
          ( /\ \E announced \in BOOLEAN : ChatDisconnect(c, announced)
            /\ chatConn[c].state # "joined" ) =>
              \A d \in ChatConns \ {c} : inbox'[d] = inbox[d]
      ]_vars

\* The connection is joined to the chat of a session that does not exist.
ChatSessionMissing(c) ==
    chatConn[c].state = "joined" /\ SessionPk(chatConn[c].session_id) \notin LiveSessions

\* C38: a chat_message (with a body), a get_history or a mark_read on a
\* connection whose session does not exist writes an error frame with a reason
\* to that connection and to no other, stores nothing, changes no read_by,
\* queues no event and leaves the connection joined.
C38_MissingSessionIsAnError ==
    [][ \A c \in ChatConns :
          ( /\ ChatSessionMissing(c)
            /\ \/ \E body \in ChatBodies : ~EmptyBody(body) /\ ChatMessageFrame(c, body)
               \/ \E limit \in HistoryLimits : ChatHistory(c, limit)
               \/ \E mid \in MessageIds : ChatMarkQuery(c, mid) ) =>
              /\ chatOut'[c].type = "error" /\ chatOut'[c].text # ""
              /\ \A d \in ChatConns \ {c} : chatOut'[d] = chatOut[d]
              /\ msgs' = msgs /\ readBy' = readBy /\ inbox' = inbox /\ groups' = groups
              /\ chatConn'[c] = chatConn[c]
      ]_vars

\* C31: a user_typing, user_joined or user_left event is forwarded to the socket
\* of every connection of the room that handles it, whichever user the
\* connection belongs to, except the connection that published the event, which
\* is written nothing.
C31_SuppressedForOriginOnly ==
    [][ \A c \in ChatConns :
          user_presence(c) =>
              IF Head(inbox[c]).via = c
              THEN chatOut'[c] = chatOut[c]
              ELSE chatOut'[c] = [Frame(Head(inbox[c]).type) EXCEPT
                                     !.user_id = Head(inbox[c]).user_id]
      ]_vars

(***************************************************************************)
(* Notification fan-out: notifications/utils.py, notifications/consumers.py *)
(***************************************************************************)
NotifUsers == {1, 12}

\* f"notifications_{user.id}"
notifications_group_name(user_id) ==
    <<"n","o","t","i","f","i","c","a","t","i","o","n","s","_">> \o Str(user_id)

\* Mutant: the key names user 1, not the recipient.
NotifTargetGroupFirst(user_id) ==
    <<"n","o","t","i","f","i","c","a","t","i","o","n","s","_">> \o Str(1)

\* The group a notification for user_id is published to: f"notifications_{user.id}"
NotifTargetGroup(user_id) ==
    <<"n","o","t","i","f","i","c","a","t","i","o","n","s","_">> \o Str(user_id)

NotifIdle == [state |-> "idle", user |-> Anon, room_group_name |-> None,
              accepted |-> FALSE, close_code |-> 0]

\* The frames written to a notification socket: the notifications received, the
\* type of the last frame and, for an error frame, its message.
NoNotifFrames == [received |-> {}, last |-> "none", message |-> ""]

NotifOrder(c) == CASE c = "n1" -> 1 [] c = "n2" -> 2

\* Identity of a new notification connection; the first one is user 1.
NotifConnectInputs(c) == IF c = "n1" THEN {1} ELSE NotifUsers \cup {Anon}

\* connect: join the user's private group, accept, connection_established;
\* an anonymous identity is closed without being accepted.
NotifConnect(c, u) ==
    /\ notifConn[c].state = "idle"
    /\ \A d \in NotifConns : NotifOrder(d) < NotifOrder(c) => notifConn[d].state # "idle"
    /\ IF is_authenticated(u)
       THEN /\ notifConn' = [notifConn EXCEPT ![c] =
                   [@ EXCEPT !.state = "open", !.user = u, !.accepted = TRUE,
                             !.room_group_name = notifications_group_name(u)]]
            /\ groups' = group_add(notifications_group_name(u), c)
            /\ notifOut' = [notifOut EXCEPT ![c].last = "connection_established",
                                            ![c].message = ""]
       ELSE /\ notifConn' = [notifConn EXCEPT ![c] =
                   [@ EXCEPT !.state = "rejected", !.user = u, !.close_code = 1000]]
            /\ UNCHANGED <<groups, notifOut>>
    /\ UNCHANGED <<inbox, notifs, caller, notifOps>>

\* disconnect: leave the private group if one was set.
NotifDisconnect(c) ==
    /\ notifConn[c].state \in {"open", "rejected"}
    /\ groups' = IF notifConn[c].room_group_name # None
                 THEN group_discard(notifConn[c].room_group_name, c)
                 ELSE groups
    /\ notifConn' = [notifConn EXCEPT ![c].state = "closed"]
    /\ inbox' = [inbox EXCEPT ![c] = <<>>]
    /\ UNCHANGED <<notifs, notifOut, caller, notifOps>>

\* The connection of a consumer whose handler raised comes to its end (the
\* client closes the socket): the application instance that joined the group
\* is gone, so its disconnect handler does not run and nothing leaves the group.
NotifAbandon(c) ==
    /\ notifConn[c].state = "crashed"
    /\ notifConn' = [notifConn EXCEPT ![c].state = "closed"]
    /\ inbox' = [inbox EXCEPT ![c] = <<>>]
    /\ UNCHANGED <<groups, notifs, notifOut, caller, notifOps>>

NotifOp == notifOps < MaxNotifOps /\ notifOps' = notifOps + 1

\* The frames a client may send: a ping, an object of another type, text that
\* is not JSON, and JSON that is not an object (a number, a list, a string).
NotifFrameKinds == {"ping", "other", "invalid_json", "non_object"}

\* receive: a ping is answered by a pong and text that is not JSON by an error
\* frame; on JSON that is not an object, text_data_json.get raises
\* AttributeError, which receive does not catch: the handler raises, nothing is
\* written, and the consumer ends without its disconnect handler being run.
NotifReceive(c, type) ==
    /\ notifConn[c].state = "open"
    /\ NotifOp
    /\ notifOut' = CASE type = "ping" ->
                           [notifOut EXCEPT ![c].last = "pong", ![c].message = ""]
                    [] type = "invalid_json" ->
                           [notifOut EXCEPT ![c].last = "error", ![c].message = "Invalid JSON"]
                    [] OTHER -> notifOut
    /\ notifConn' = IF type = "non_object"
                    THEN [notifConn EXCEPT ![c].state = "crashed"]
                    ELSE notifConn
    /\ UNCHANGED <<groups, inbox, notifs, caller>>

\* notification_message: the event is forwarded to the socket.
notification_message(c) ==
    /\ notifConn[c].state = "open"
    /\ inbox[c] # <<>>
    /\ Head(inbox[c]).type = "notification_message"
    /\ notifOut' = [notifOut EXCEPT ![c].received = @ \cup {Head(inbox[c]).notification},
                                    ![c].last = "new_notification", ![c].message = ""]
    /\ inbox' = [inbox EXCEPT ![c] = Tail(@)]
    /\ UNCHANGED <<groups, notifs, notifConn, caller, notifOps>>

\* base, account and created belong to a call made by the post_save receiver of
\* CustomUser: the number of notifications stored when it began, the user that
\* was saved, and whether that save created the user.
CallerIdle == [op |-> "none", users |-> <<>>, i |-> 0, pc |-> "idle", result |-> <<>>,
               attempts |-> <<>>, raised |-> FALSE, base |-> 0, account |-> 0,
               created |-> FALSE]

\* Recipient lists given to send_notification_to_multiple_users.
ManyInputs == { <<1, 12>>, <<12, 12>>, <<>> }

\* send_notification(user, ...) is called.
send_notification(u) ==
    /\ caller.pc \in {"idle", "done"}
    /\ NotifOp
    /\ caller' = [CallerIdle EXCEPT !.op = "single", !.users = <<u>>, !.i = 1,
                                    !.pc = "create"]
    /\ UNCHANGED <<groups, inbox, notifs, notifConn, notifOut>>

\* send_notification_to_multiple_users(users, ...) is called.
send_notification_to_multiple_users(us) ==
    /\ caller.pc \in {"idle", "done"}
    /\ NotifOp
    /\ caller' = [CallerIdle EXCEPT !.op = "many", !.users = us, !.i = 1,
                                    !.pc = IF us = <<>> THEN "done" ELSE "create"]
    /\ UNCHANGED <<groups, inbox, notifs, notifConn, notifOut>>

\* notification_type: USER_REGISTRATION from the post_save receiver, else the default INFO.
NotificationTypeOf(op) == IF op = "signup" THEN "user_registration" ELSE "info"

\* read_at of a notification that was not read: null.
NoTime == 0

\* Mutant: the row keeps the default status.
NewNotificationQueued(u) ==
    [user |-> u, status |-> "queued", read_at |-> NoTime, type |-> NotificationTypeOf(caller.op)]

\* Notification.objects.create(user=user, ..., status=NotificationStatus.SENT, ...)
NewNotification(u) ==
    [user |-> u, status |-> "sent", read_at |-> NoTime, type |-> NotificationTypeOf(caller.op)]

\* The row of the current recipient is created (and, for many, appended to the list).
NotifCreate ==
    /\ caller.pc = "create"
    /\ notifs' = Append(notifs, NewNotification(caller.users[caller.i]))
    /\ caller' = [caller EXCEPT !.pc = "publish", !.result = Append(@, Len(notifs) + 1)]
    /\ UNCHANGED <<groups, inbox, notifConn, notifOut, notifOps>>

\* The connections of user u that are open.
NotifOpenFor(u) ==
    {ch \in NotifConns : notifConn[ch].state = "open" /\ notifConn[ch].user = u}

\* Mutant: the exception of a failed publish is not caught.
PublishFailureRaised(ok) == ~ok

\* try: group_send(...) except Exception: print(...) -- the failure is swallowed.
PublishFailureRaises(ok) == FALSE

\* The publish of the current recipient's notification (ok: group_send succeeded),
\* then the next recipient, or the return.
NotifPublish(ok) ==
    /\ caller.pc = "publish"
    /\ LET u  == caller.users[caller.i]
           id == caller.result[caller.i]
           g  == NotifTargetGroup(u)
           ev == [type |-> "notification_message", notification |-> id]
       IN  /\ inbox' = IF ok THEN group_send(g, ev) ELSE inbox
           /\ caller' =
                IF PublishFailureRaises(ok)
                THEN [caller EXCEPT !.pc = "done", !.raised = TRUE,
                         !.attempts = Append(@, [ok |-> ok, open |-> NotifOpenFor(u)])]
                ELSE [caller EXCEPT
                         !.attempts = Append(@, [ok |-> ok, open |-> NotifOpenFor(u)]),
                         !.i = @ + 1,
                         !.pc = IF caller.i < Len(caller.users) THEN "create"
                                ELSE IF caller.op = "signup" THEN "verify" ELSE "done"]
    /\ UNCHANGED <<groups, notifs, notifConn, notifOut, notifOps>>

NextNotif ==
    \/ \E c \in NotifConns : \E u \in NotifConnectInputs(c) : NotifConnect(c, u)
    \/ \E c \in NotifConns : NotifDisconnect(c)
    \/ \E c \in NotifConns : NotifAbandon(c)
    \/ \E c \in NotifConns, type \in NotifFrameKinds : NotifReceive(c, type)
    \/ \E c \in NotifConns : notification_message(c)
    \/ \E u \in NotifUsers : send_notification(u)
    \/ \E us \in ManyInputs : send_notification_to_multiple_users(us)
    \/ NotifCreate
    \/ \E ok \in BOOLEAN : NotifPublish(ok)

(***************************************************************************)
(* Properties of the notification fan-out.                                 *)
(***************************************************************************)
\* C8: a notification created for recipient U is queued for, and written to the
\* socket of, only connections whose resolved identity is U.
C8_OnlyRecipientReceives ==
    \A c \in NotifConns :
        /\ \A id \in notifOut[c].received : notifs[id].user = notifConn[c].user
        /\ \A i \in 1..Len(inbox[c]) :
              notifs[inbox[c][i].notification].user = notifConn[c].user

\* C8, witness: a connection of U received a notification while a connection of
\* another user was open and had sent a frame.
C8_Witness ==
    \E c, d \in NotifConns :
        /\ notifOut[c].received # {}
        /\ notifConn[d].state = "open"
        /\ notifConn[d].user # notifConn[c].user
        /\ notifOut[d].last = "pong"

\* C9: send_notification returns the persisted row, with status sent, for the
\* given recipient, and raises nothing, whether or not the publish failed and
\* whether or not a connection was subscribed.
C9_CreateSurvivesPublishFailure ==
    (caller.op = "single" /\ caller.pc = "done") =>
        /\ ~caller.raised
        /\ Len(caller.result) = 1
        /\ caller.result[1] \in 1..Len(notifs)
        /\ notifs[caller.result[1]] =
              [user |-> caller.users[1], status |-> "sent", read_at |-> NoTime,
               type |-> "info"]

\* C9, witness: send_notification has returned after a failed publish.
C9_Witness ==
    /\ caller.op = "single"
    /\ caller.pc = "done"
    /\ ~caller.attempts[1].ok

\* Connection ch has, or had, notification id on its way or on its socket.
NotifReached(ch, id) ==
    \/ id \in notifOut[ch].received
    \/ \E k \in 1..Len(inbox[ch]) : inbox[ch][k].notification = id
    \/ notifConn[ch].state = "closed"

\* C10: send_notification_to_multiple_users returns one persisted notification
\* per recipient of the list, in order, and every publish that did not fail
\* reached the connections of its recipient that were open then, whatever
\* happened to the publishes of the other recipients.
C10_ManyIsolatesFailures ==
    (caller.op = "many" /\ caller.pc = "done") =>
        /\ ~caller.raised
        /\ Len(caller.result) = Len(caller.users)
        /\ \A i \in 1..Len(caller.users) :
              /\ caller.result[i] \in 1..Len(notifs)
              /\ notifs[caller.result[i]].user = caller.users[i]
              /\ notifs[caller.result[i]].status = "sent"
              /\ \A j \in 1..Len(caller.users) : i # j => caller.result[i] # caller.result[j]
              /\ caller.attempts[i].ok =>
                    \A ch \in caller.attempts[i].open : NotifReached(ch, caller.result[i])

\* C10, witness: the publish for the first recipient failed, and the second
\* recipient's notification was persisted and delivered to its connection.
C10_Witness ==
    /\ caller.op = "many"
    /\ caller.pc = "done"
    /\ Len(caller.users) = 2
    /\ ~caller.attempts[1].ok
    /\ \E c \in NotifConns : caller.result[2] \in notifOut[c].received

\* C30: an exception raised by a cleanup step of a disconnect handler -- a
\* failing group leave, a failing presence broadcast -- does not leave the
\* handler and does not keep the remaining steps from being attempted: the
\* signaling disconnect still leaves the mailbox group when leaving the room
\* group failed, and the chat disconnect still leaves the room group when the
\* user_left broadcast failed.
C30_CleanupErrorsSwallowed ==
    [][ /\ \A c \in SigConns, ok \in BOOLEAN :
              SigDisconnect(c, ok) =>
                  /\ ~sigConn'[c].raised
                  /\ \A x \in SigLabels :
                        sigConn[c].client_id = x =>
                            <<peer_group_name(sigConn[c].room_id, x), c>> \notin groups'
        /\ \A c \in ChatConns :
              ChatDisconnect(c, FALSE) =>
                  /\ chatConn'[c].state = "closed"
                  /\ <<chatConn[c].room_group_name, c>> \notin groups'
      ]_vars

\* The groups channel ch is a member of.
GroupsOf(gs, ch) == {x[1] : x \in {y \in gs : y[2] = ch}}

\* C29: a signaling, chat or notification connection that has disconnected is
\* a member of no group -- not of its room or private group, nor of a peer
\* mailbox -- and from then on no event is queued for it and nothing is
\* written to its socket.
C29_NoMembershipAfterDisconnect ==
    [][ /\ \A c \in SigConns :
              sigConn'[c].state = "closed" =>
                  /\ GroupsOf(groups', c) = {}
                  /\ inbox'[c] = <<>>
                  /\ sigConn[c].state = "closed" => sigOut'[c] = sigOut[c]
        /\ \A c \in ChatConns :
              chatConn'[c].state = "closed" =>
                  /\ GroupsOf(groups', c) = {}
                  /\ inbox'[c] = <<>>
                  /\ chatConn[c].state = "closed" => chatOut'[c] = chatOut[c]
        /\ \A c \in NotifConns :
              notifConn'[c].state = "closed" =>
                  /\ GroupsOf(groups', c) = {}
                  /\ inbox'[c] = <<>>
                  /\ notifConn[c].state = "closed" => notifOut'[c] = notifOut[c]
      ]_vars

\* C27: on the chat and notification channels a frame that makes the handler
\* fail -- text that is not JSON, JSON that is not an object, a failed publish
\* -- is answered by an error frame on the sender's socket and the connection
\* stays open; and a connection that the server closed was closed for an
\* anonymous identity at connect time.
C27_FrameErrorsBecomeErrorFrames ==
    [][ /\ \A c \in NotifConns, type \in NotifFrameKinds :
              NotifReceive(c, type) =>
                  /\ notifConn'[c].state = "open"
                  /\ type \in {"invalid_json", "non_object"} => notifOut'[c].last = "error"
        /\ \A c \in ChatConns :
              /\ ChatSaveAddSender(c, FALSE) =>
                    /\ chatOut'[c].type = "error"
                    /\ chatConn'[c].state = "joined"
              /\ (\E body \in ChatBodies : ChatMessageFrame(c, body)) =>
                    chatConn'[c].state = "joined"
              /\ chatConn'[c].close_code # 0 => ~is_authenticated(chatConn'[c].user)
        /\ \A c \in NotifConns :
              notifConn'[c].state = "rejected" => ~is_authenticated(notifConn'[c].user)
      ]_vars

\* C39: on the chat and on the notification channel, a frame that is not valid
\* JSON is answered with {"type": "error", "message": "Invalid message format"}
\* to the sender only; the store, the queues and the group memberships are left
\* as they are and the connection stays open.
C39_InvalidJsonFrame ==
    [][ /\ \A c \in ChatConns :
              ChatInvalidJson(c) =>
                  /\ chatOut'[c].type = "error"
                  /\ chatOut'[c].text = "Invalid message format"
                  /\ \A d \in ChatConns \ {c} : chatOut'[d] = chatOut[d]
                  /\ msgs' = msgs /\ readBy' = readBy /\ groups' = groups /\ inbox' = inbox
                  /\ chatConn'[c].state = "joined"
        /\ \A c \in NotifConns :
              NotifReceive(c, "invalid_json") =>
                  /\ notifOut'[c].last = "error"
                  /\ notifOut'[c].message = "Invalid message format"
                  /\ \A d \in NotifConns \ {c} : notifOut'[d] = notifOut[d]
                  /\ notifs' = notifs /\ groups' = groups /\ inbox' = inbox
                  /\ notifConn'[c].state = "open"
      ]_vars

(***************************************************************************)
(* REST views of the notifications: notifications/views.py,                *)
(* notifications/models.py                                                 *)
(***************************************************************************)
RestSlots == {"r1", "r2"}

NRestIdle == [op |-> "none", user |-> Anon, pk |-> 0, pc |-> "idle",
              read_at |-> NoTime, stamp |-> 0]

\* A response; stamp is the number of the request it answers.
NoInboxResponse == [op |-> "none", user |-> Anon, status |-> 0, rows |-> {}, count |-> 0,
                    stamp |-> 0]

InboxOp == nrestOps < MaxInboxOps /\ nrestOps' = nrestOps + 1

\* The primary keys a client may name.
PkInputs == {1, 2}

\* The is_read query parameter of the list view: absent or 'false'.
IsReadFilters == {"none", "false"}

NotifIds == 1..Len(notifs)

\* Notification.is_read
is_read(row) == row.read_at # NoTime

\* Mutant: is_read=false selects the notifications that were read.
NotifQuerysetSwapped(u, f) ==
    {id \in NotifIds :
        /\ notifs[id].user = u
        /\ f = "false" => is_read(notifs[id])
        /\ f = "true" => ~is_read(notifs[id])}

\* NotificationListCreateView.get_queryset
NotifQueryset(u, f) ==
    {id \in NotifIds :
        /\ notifs[id].user = u
        /\ f = "true" => is_read(notifs[id])
        /\ f = "false" => ~is_read(notifs[id])}

\* GET notifications/?is_read=f by user u.
ListNotifications(u, f) ==
    /\ InboxOp
    /\ nrestResp' = [NoInboxResponse EXCEPT !.op = "list", !.user = u, !.status = 200,
          !.rows = {[id |-> id, is_read |-> is_read(notifs[id])] : id \in NotifQueryset(u, f)}]
    /\ UNCHANGED <<groups, inbox, notifVars, nrest>>

\* mark_notification_as_read / mark_notification_as_unread of user u on pk:
\* Notification.objects.get(pk=pk, user=request.user), or 404.
MarkFetch(r, op, u, pk) ==
    /\ nrest[r].pc = "idle"
    /\ r = "r2" => nrest["r1"].pc # "idle"
    /\ InboxOp
    /\ IF pk \in NotifIds /\ notifs[pk].user = u
       THEN /\ nrest' = [nrest EXCEPT ![r] =
                   [op |-> op, user |-> u, pk |-> pk, pc |-> "fetched",
                    read_at |-> notifs[pk].read_at, stamp |-> nrestOps + 1]]
            /\ UNCHANGED nrestResp
       ELSE /\ nrestResp' = [NoInboxResponse EXCEPT !.op = op, !.user = u, !.status = 404]
            /\ UNCHANGED nrest
    /\ UNCHANGED <<groups, inbox, notifVars>>

\* Mutant: mark_as_read sets the timestamp whatever the row holds.
MarkReadWritesAlways(read_at) == TRUE

\* Notification.mark_as_read: `if not self.is_read:`
MarkReadWrites(read_at) == read_at = NoTime

\* Notification.mark_as_read on the fetched instance, then the response.
mark_as_read(r) ==
    /\ nrest[r].pc = "fetched"
    /\ nrest[r].op = "mark_read"
    /\ notifs' = IF MarkReadWrites(nrest[r].read_at)
                 THEN [notifs EXCEPT ![nrest[r].pk].read_at = nrest[r].stamp]
                 ELSE notifs
    /\ nrestResp' = [NoInboxResponse EXCEPT !.op = "mark_read", !.user = nrest[r].user,
          !.stamp = nrest[r].stamp, !.status = 200, !.rows = {[id |-> nrest[r].pk, is_read |-> TRUE]}]
    /\ nrest' = [nrest EXCEPT ![r] = NRestIdle]
    /\ UNCHANGED <<groups, inbox, notifConn, notifOut, caller, notifOps, nrestOps>>

\* Notification.mark_as_unread on the fetched instance, then the response.
mark_as_unread(r) ==
    /\ nrest[r].pc = "fetched"
    /\ nrest[r].op = "mark_unread"
    /\ notifs' = [notifs EXCEPT ![nrest[r].pk].read_at = NoTime]
    /\ nrestResp' = [NoInboxResponse EXCEPT !.op = "mark_unread", !.user = nrest[r].user,
          !.stamp = nrest[r].stamp, !.status = 200, !.rows = {[id |-> nrest[r].pk, is_read |-> FALSE]}]
    /\ nrest' = [nrest EXCEPT ![r] = NRestIdle]
    /\ UNCHANGED <<groups, inbox, notifConn, notifOut, caller, notifOps, nrestOps>>

\* mark_all_as_read: one UPDATE of the unread notifications of the user.
mark_all_as_read(u) ==
    /\ InboxOp
    /\ LET hit == {id \in NotifIds : notifs[id].user = u /\ ~is_read(notifs[id])}
       IN  /\ notifs' = [id \in NotifIds |->
                           IF id \in hit THEN [notifs[id] EXCEPT !.read_at = nrestOps + 1]
                           ELSE notifs[id]]
           /\ nrestResp' = [NoInboxResponse EXCEPT !.op = "mark_all", !.user = u,
                                                   !.status = 200, !.count = Cardinality(hit)]
    /\ UNCHANGED <<groups, inbox, notifConn, notifOut, caller, notifOps, nrest>>

\* get_unread_count of the notification views.
notifications_unread_count(u) ==
    /\ InboxOp
    /\ nrestResp' = [NoInboxResponse EXCEPT !.op = "unread_count", !.user = u, !.status = 200,
          !.count = Cardinality({id \in NotifIds : notifs[id].user = u /\ ~is_read(notifs[id])})]
    /\ UNCHANGED <<groups, inbox, notifVars, nrest>>

\* The user of the REST requests, and the connection that user opens.
InboxUsers == {1}
InboxConns == {"n1"}

\* Notifications are created for either user by send_notification; user 1 opens
\* a connection and calls the views.
NextInbox ==
    \/ /\ \/ \E u \in NotifUsers : send_notification(u)
          \/ NotifCreate
          \/ \E ok \in BOOLEAN : NotifPublish(ok)
          \/ \E c \in InboxConns, u \in InboxUsers : NotifConnect(c, u)
          \/ \E c \in InboxConns : notification_message(c)
       /\ UNCHANGED inboxVars
    \/ \E u \in InboxUsers, f \in IsReadFilters : ListNotifications(u, f)
    \/ \E r \in RestSlots, op \in {"mark_read", "mark_unread"}, u \in InboxUsers, pk \in PkInputs :
          MarkFetch(r, op, u, pk)
    \/ \E r \in RestSlots : mark_as_read(r)
    \/ \E r \in RestSlots : mark_as_unread(r)
    \/ \E u \in InboxUsers : mark_all_as_read(u)
    \/ \E u \in InboxUsers : notifications_unread_count(u)

\* The notifications of user u that are unread.
UnreadNotifications(u) == {id \in NotifIds : notifs[id].user = u /\ notifs[id].read_at = NoTime}

\* C18: a notification is persisted with status sent and unread whether or not
\* its recipient has an open connection; it stays stored and unread until a
\* mark-read request of its recipient, and until then every listing of the
\* recipient's notifications (all of them, or the unread ones) returns it as
\* unread.
C18_UnreadUntilMarkedRead ==
    [][ /\ NotifCreate =>
              /\ Len(notifs') = Len(notifs) + 1
              /\ notifs'[Len(notifs')].user = caller.users[caller.i]
              /\ notifs'[Len(notifs')].status = "sent"
              /\ notifs'[Len(notifs')].read_at = NoTime
        /\ Len(notifs') >= Len(notifs)
        /\ \A id \in NotifIds :
              /\ notifs'[id].user = notifs[id].user
              /\ notifs'[id].status = notifs[id].status
              /\ (notifs[id].read_at = NoTime /\ notifs'[id].read_at # NoTime) =>
                    \/ \E r \in RestSlots :
                          /\ mark_as_read(r)
                          /\ nrest[r].pk = id
                          /\ nrest[r].user = notifs[id].user
                    \/ mark_all_as_read(notifs[id].user)
        /\ \A u \in InboxUsers, f \in IsReadFilters :
              ListNotifications(u, f) =>
                  /\ \A id \in UnreadNotifications(u) :
                        [id |-> id, is_read |-> FALSE] \in nrestResp'.rows
                  /\ \A row \in nrestResp'.rows :
                        /\ notifs[row.id].user = u
                        /\ row.is_read = (notifs[row.id].read_at # NoTime)
      ]_vars

\* C18, witness: the notification was created for a user who had no open
\* connection; the user has connected since, and the listing of the unread
\* notifications returns it.
C18_Witness ==
    /\ caller.op = "single"
    /\ caller.pc = "done"
    /\ caller.attempts[1].open = {}
    /\ \E c \in NotifConns :
          /\ notifConn[c].state = "open"
          /\ notifConn[c].user = caller.users[1]
          /\ notifOut[c].received = {}
    /\ nrestResp.op = "list"
    /\ nrestResp.user = caller.users[1]
    /\ [id |-> caller.result[1], is_read |-> FALSE] \in nrestResp.rows

\* C20: mark_as_read on a notification that was read when the request fetched
\* it changes nothing in the store, so the read timestamp stays; mark_as_unread
\* leaves an unread notification unread; either one changes no other
\* notification, touches nothing but read_at, and publishes nothing.
C20_MarkReadUnreadIdempotent ==
    [][ \A r \in RestSlots :
          /\ (mark_as_read(r) /\ nrest[r].read_at # NoTime) => notifs' = notifs
          /\ mark_as_unread(r) => notifs'[nrest[r].pk].read_at = NoTime
          /\ (mark_as_read(r) \/ mark_as_unread(r)) =>
                /\ Len(notifs') = Len(notifs)
                /\ \A id \in NotifIds \ {nrest[r].pk} : notifs'[id] = notifs[id]
                /\ notifs'[nrest[r].pk].user = notifs[nrest[r].pk].user
                /\ notifs'[nrest[r].pk].status = notifs[nrest[r].pk].status
                /\ inbox' = inbox
                /\ groups' = groups
      ]_vars

\* C20, witness: a mark-read request has been answered for a notification that
\* carries the timestamp of an earlier request, while another notification of
\* the same user is unread.
C20_Witness ==
    /\ nrestResp.op = "mark_read"
    /\ nrestResp.status = 200
    /\ \A r \in RestSlots : nrest[r].pc = "idle"
    /\ \E id \in NotifIds :
          /\ [id |-> id, is_read |-> TRUE] \in nrestResp.rows
          /\ notifs[id].read_at # NoTime
          /\ notifs[id].read_at < nrestResp.stamp
          /\ \E other \in NotifIds \ {id} :
                notifs[other].user = notifs[id].user /\ notifs[other].read_at = NoTime

(***************************************************************************)
(* Registration: accounts/signals.py, accounts/models.py                   *)
(***************************************************************************)
\* role, is_superuser and email_verified of a user being created: a student, a
\* super admin made by create_superuser, a superuser that is not verified yet,
\* and a user with the super admin role only.
NewAccounts ==
    { [role |-> "student", is_superuser |-> FALSE, email_verified |-> FALSE],
      [role |-> "super_admin", is_superuser |-> TRUE, email_verified |-> TRUE],
      [role |-> "super_admin", is_superuser |-> TRUE, email_verified |-> FALSE],
      [role |-> "super_admin", is_superuser |-> FALSE, email_verified |-> FALSE] }

\* CustomUser.objects.filter(role=RoleChoices.SUPER_ADMIN)
super_admins(acc) == {id \in 1..Len(acc) : acc[id].role = "super_admin"}

\* Mutant: the receiver notifies on every save.
NotifiesOnSaveAlways(created) == TRUE

\* notify_super_admins_on_new_user: `if created:`
NotifiesOnSave(created) == created

\* notify_super_admins_on_new_user after user `id` of table acc was saved: the
\* call of send_notification_to_multiple_users it makes, if it makes one.
notify_super_admins_on_new_user(acc, id, created) ==
    IF NotifiesOnSave(created) /\ super_admins(acc) # {}
    THEN [CallerIdle EXCEPT !.op = "signup", !.users = Ascending(super_admins(acc)),
                            !.i = 1, !.pc = "create", !.base = Len(notifs),
                            !.account = id, !.created = created]
    ELSE [CallerIdle EXCEPT !.op = "signup", !.pc = IF created THEN "verify" ELSE "done",
                            !.base = Len(notifs), !.account = id, !.created = created]

\* A request creates a user: the row is saved and post_save runs the receivers.
CreateUser(row) ==
    /\ caller.pc \in {"idle", "done"}
    /\ Len(accounts) < MaxAccounts
    /\ accounts' = Append(accounts, row)
    /\ caller' = notify_super_admins_on_new_user(accounts', Len(accounts'), TRUE)
    /\ UNCHANGED <<groups, inbox, notifs, notifConn, notifOut, notifOps>>

\* send_verification_email_on_registration, the last receiver of the creation:
\* an unverified superuser is verified and saved again (created is False).
SignupVerify ==
    /\ caller.pc = "verify"
    /\ LET id == caller.account
       IN  IF ~accounts[id].email_verified /\ accounts[id].is_superuser
           THEN /\ accounts' = [accounts EXCEPT ![id].email_verified = TRUE]
                /\ caller' = IF NotifiesOnSave(FALSE)
                             THEN notify_super_admins_on_new_user(accounts', id, FALSE)
                             ELSE [caller EXCEPT !.pc = "done"]
           ELSE /\ caller' = [caller EXCEPT !.pc = "done"]
                /\ UNCHANGED accounts
    /\ UNCHANGED <<groups, inbox, notifs, notifConn, notifOut, notifOps>>

\* A request saves an existing user (here: its e-mail address is verified).
SaveUser(id) ==
    /\ caller.pc \in {"idle", "done"}
    /\ id \in 1..Len(accounts)
    /\ ~accounts[id].email_verified
    /\ accounts' = [accounts EXCEPT ![id].email_verified = TRUE]
    /\ caller' = IF NotifiesOnSave(FALSE)
                 THEN notify_super_admins_on_new_user(accounts', id, FALSE)
                 ELSE caller
    /\ UNCHANGED <<groups, inbox, notifs, notifConn, notifOut, notifOps>>

NextSignup ==
    \/ \E row \in NewAccounts : CreateUser(row)
    \/ SignupVerify
    \/ \E id \in 1..MaxAccounts : SaveUser(id)
    \/ /\ \/ NotifCreate
          \/ \E ok \in BOOLEAN : NotifPublish(ok)
          \/ \E c \in InboxConns, u \in InboxUsers : NotifConnect(c, u)
          \/ \E c \in InboxConns : notification_message(c)
       /\ UNCHANGED accounts

\* The user-registration notifications of user u in table ns after the first `base` rows.
NewNotificationsIn(ns, u, base) ==
    {id \in (base + 1)..Len(ns) :
        /\ ns[id].user = u
        /\ ns[id].type = "user_registration"
        /\ ns[id].status = "sent"}

\* C19: the creation of a user calls for one notification for each super admin
\* that exists then; when the receiver is through, every one of them has a new
\* user-registration notification stored; and a save of an existing user
\* stores no notification.
C19_SignupNotifiesSuperAdmins ==
    [][ /\ \A row \in NewAccounts :
              CreateUser(row) =>
                  /\ caller'.created
                  /\ caller'.base = Len(notifs)
                  /\ Len(caller'.users) = Cardinality(super_admins(accounts'))
                  /\ \A a \in super_admins(accounts') :
                        \E i \in 1..Len(caller'.users) : caller'.users[i] = a
        /\ (caller'.op = "signup" /\ caller'.created /\ caller'.pc \in {"verify", "done"}) =>
              \A i \in 1..Len(caller'.users) :
                  NewNotificationsIn(notifs', caller'.users[i], caller'.base) # {}
        /\ (\E id \in 1..MaxAccounts : SaveUser(id)) => notifs' = notifs
        /\ (Len(notifs') > Len(notifs) /\ caller.op = "signup") => caller.created
      ]_vars

\* C19, witness: a user was created while two super admins existed, the publish
\* of the first notification failed, and both have their notification; the
\* user has been saved again since.
C19_Witness ==
    /\ caller.op = "signup"
    /\ caller.pc = "done"
    /\ caller.created
    /\ Len(caller.users) = 2
    /\ ~caller.attempts[1].ok
    /\ \A i \in 1..2 : NewNotificationsIn(notifs, caller.users[i], caller.base) # {}
    /\ accounts[caller.account].role = "student"
    /\ accounts[caller.account].email_verified

\* C14: on the chat and on the notification channel, a connection whose
\* identity is anonymous is closed at connect time without being accepted, with
\* a close code of its own, which is not the normal-closure code 1000.
C14_AuthFailureDistinctCode ==
    /\ \A c \in ChatConns :
          (chatConn[c].state # "idle" /\ ~is_authenticated(chatConn[c].user)) =>
              /\ ~chatConn[c].accepted
              /\ chatConn[c].close_code \notin {0, 1000}
    /\ \A c \in NotifConns :
          (notifConn[c].state # "idle" /\ ~is_authenticated(notifConn[c].user)) =>
              /\ ~notifConn[c].accepted
              /\ notifConn[c].close_code \notin {0, 1000}

\* The soft-deleted messages.
Deleted == {m \in MsgIds : msgs[m].is_deleted}

\* The messages of session s that user u is not in the read-by set of, deleted or not.
NotReadBy(u, s) == {m \in MsgIds : msgs[m].session = s /\ <<m, u>> \notin readBy}

\* C17: a soft-deleted message stays in the store (no row is ever removed or
\* undeleted, and delete_message changes nothing but the flag), no chat_history
\* frame lists it, no reported unread count counts it, and no mark_read takes
\* it into the set of messages it marks.
C17_SoftDeletedExcluded ==
    [][ /\ Len(msgs') >= Len(msgs)
        /\ \A m \in MsgIds :
              /\ msgs'[m].session = msgs[m].session
              /\ msgs'[m].sender = msgs[m].sender
              /\ msgs[m].is_deleted => msgs'[m].is_deleted
        /\ \A u \in RestUsers, m \in MsgIds :
              delete_message(u, m) => msgs'[m].is_deleted /\ readBy' = readBy
        /\ \A c \in ChatConns :
              /\ (\E limit \in HistoryLimits : ChatHistory(c, limit)) =>
                    /\ \A i \in 1..Len(chatOut'[c].messages) :
                          chatOut'[c].messages[i] \notin Deleted
                    /\ chatOut'[c].unread_count =
                          Cardinality(NotReadBy(chatConn[c].user, ChatSession(c)) \ Deleted)
              /\ ChatMarkReply(c) =>
                    chatOut'[c].unread_count =
                          Cardinality(NotReadBy(chatConn[c].user, ChatSession(c)) \ Deleted)
              /\ (chat_message_broadcast(c) /\ chatOut'[c].has_unread) =>
                    chatOut'[c].unread_count =
                          Cardinality(NotReadBy(chatConn[c].user, ChatSession(c)) \ Deleted)
              /\ (\E mid \in MessageIds : ChatMarkQuery(c, mid)) =>
                    chatConn'[c].pending \cap Deleted = {}
        /\ \A u \in RestUsers, s \in LiveSessions :
              /\ unread_count(u, s) =>
                    restResp'.unread_count = Cardinality(NotReadBy(u, s) \ Deleted)
              /\ (\E mid \in MessageIds : RestMarkQuery(u, s, mid)) =>
                    rest'.pending \cap Deleted = {}
      ]_vars

\* C17, witness: a user has a chat_history frame that lists the one message of
\* the session that is not deleted and counts it as the only unread one, while
\* the deleted message is still stored and unread by that user.
C17_Witness ==
    \E c \in ChatConns :
        /\ chatOut[c].type = "chat_history"
        /\ chatOut[c].messages = <<2>>
        /\ chatOut[c].unread_count = 1
        /\ msgs[1].is_deleted
        /\ msgs[1].session = ChatSession(c)
        /\ <<1, chatConn[c].user>> \notin readBy

\* The characters a group key may consist of.
GroupKeyChars == Letters \cup Digits \cup {".", "-", "_"}

RestrictedKey(g) == \A i \in 1..Len(g) : g[i] \in GroupKeyChars

\* C16: every group key a consumer of the signaling, chat or notification
\* channel has handed to the channel layer -- the room key once the connection
\* is accepted, and every key it is a member of -- consists only of
\* alphanumerics, '.', '-' and '_'.
C16_GroupKeysValidated ==
    /\ \A c \in SigConns :
          sigConn[c].state \in {"accepted", "open", "closed"} =>
              RestrictedKey(sigConn[c].room_group)
    /\ \A c \in ChatConns : chatConn[c].accepted => RestrictedKey(chatConn[c].room_group_name)
    /\ \A c \in NotifConns : RestrictedKey(notifConn[c].room_group_name)
    /\ \A x \in groups : RestrictedKey(x[1])

(***************************************************************************)
(* Connection authenticator: core/jwt_channels_middleware.py               *)
(***************************************************************************)
\* The CustomUser rows that exist.
CustomUsers == {1, 2}

\* A token as the two validations see it: the outcome of AccessToken(token), the
\* outcome of jwt.decode(token, SECRET_KEY, HS256) and the user_id claim (0
\* when the claim is missing).
Token(kind, simple, raw, user_id) ==
    [kind |-> kind, simple |-> simple, raw |-> raw, user_id |-> user_id]

\* No token: the parameter or the header is missing or blank.
NoToken == Token("absent", "none", "none", 0)

\* Bytes that .decode() cannot decode.
Undecodable == Token("undecodable", "none", "none", 0)

AuthTokens ==
    { NoToken,
      Undecodable,
      Token("malformed", "TokenError", "InvalidTokenError", 0),
      Token("expired", "TokenError", "ExpiredSignatureError", 1),
      Token("access", "ok", "ok", 1),
      Token("signaling", "TokenError", "ok", 1),
      Token("access", "ok", "ok", 9),
      Token("signaling", "TokenError", "ok", 9),
      Token("access", "ok", "ok", 0) }

AuthIdle == [pc |-> "idle", query |-> NoToken, header |-> NoToken, token |-> NoToken,
             user |-> Anon, app_user |-> Anon, calls |-> 0, error |-> "none"]

\* Mutant: __call__ lets an exception through.
MiddlewareCatchesNone(exc) == FALSE

\* __call__: `except Exception as e:` catches whatever was raised.
MiddlewareCatches(exc) == TRUE

\* An exception reaches the handler of __call__, or leaves the middleware.
AuthRaise(a, exc) ==
    IF MiddlewareCatches(exc) THEN [a EXCEPT !.pc = "except", !.error = exc]
    ELSE [a EXCEPT !.pc = "failed", !.error = exc]

\* A WebSocket handshake arrives with its query string and its subprotocol header.
AuthHandshake(q, h) ==
    /\ auth.pc = "idle"
    /\ auth' = [auth EXCEPT !.pc = "extract", !.query = q, !.header = h]

\* __call__: the token is taken from the query string, else from the header.
AuthExtract ==
    /\ auth.pc = "extract"
    /\ auth' =
         IF auth.query = Undecodable THEN AuthRaise(auth, "UnicodeDecodeError")
         ELSE IF auth.query # NoToken
         THEN [auth EXCEPT !.pc = "get_user", !.token = auth.query]
         ELSE IF auth.header = Undecodable THEN AuthRaise(auth, "UnicodeDecodeError")
         ELSE [auth EXCEPT !.pc = "get_user", !.token = auth.header]

\* get_user, first attempt: AccessToken(token), then the lookup of the user
\* (db: the query did not raise).
AuthSimpleJWT(db) ==
    /\ auth.pc = "get_user"
    /\ auth' =
         IF auth.token = NoToken THEN [auth EXCEPT !.pc = "call_app", !.user = Anon]
         ELSE IF auth.token.simple = "ok" /\ auth.token.user_id # 0
         THEN IF ~db THEN AuthRaise(auth, "DatabaseError")
              ELSE IF auth.token.user_id \in CustomUsers
              THEN [auth EXCEPT !.pc = "call_app", !.user = auth.token.user_id]
              ELSE [auth EXCEPT !.pc = "raw"]
         ELSE [auth EXCEPT !.pc = "raw"]

\* get_user, second attempt: jwt.decode, then the lookup; every exception ends
\* in the anonymous identity.
AuthRawJWT(db) ==
    /\ auth.pc = "raw"
    /\ auth' =
         IF /\ auth.token.raw = "ok" /\ auth.token.user_id # 0
            /\ db /\ auth.token.user_id \in CustomUsers
         THEN [auth EXCEPT !.pc = "call_app", !.user = auth.token.user_id]
         ELSE [auth EXCEPT !.pc = "call_app", !.user = Anon]

\* __call__: scope['user'] = user; return await self.app(scope, receive, send)
\* (ok: the application did not raise).
AuthCallApp(ok) ==
    /\ auth.pc = "call_app"
    /\ LET called == [auth EXCEPT !.app_user = auth.user, !.calls = @ + 1]
       IN  auth' = IF ok THEN [called EXCEPT !.pc = "handed"]
                   ELSE AuthRaise(called, "ApplicationError")

\* __call__, the handler: scope['user'] = AnonymousUser(); the application is called.
AuthExcept(ok) ==
    /\ auth.pc = "except"
    /\ auth' = [auth EXCEPT !.app_user = Anon, !.calls = @ + 1,
                            !.pc = IF ok THEN "handed" ELSE "failed"]

NextAuth ==
    \/ \E q \in AuthTokens, h \in AuthTokens : AuthHandshake(q, h)
    \/ AuthExtract
    \/ \E db \in BOOLEAN : AuthSimpleJWT(db)
    \/ \E db \in BOOLEAN : AuthRawJWT(db)
    \/ \E ok \in BOOLEAN : AuthCallApp(ok)
    \/ \E ok \in BOOLEAN : AuthExcept(ok)

\* The token is validly signed, not expired, and names an existing user.
TokenResolvesTo(t, u) ==
    /\ u \in CustomUsers
    /\ t.user_id = u
    /\ t.simple = "ok" \/ t.raw = "ok"

\* C15: whatever the token -- absent, undecodable, malformed, expired, valid for
\* a user that does not exist, or one whose lookup raises -- the middleware
\* never ends before it has called the application, and it calls it with the
\* user the token resolves to or with the anonymous identity.
C15_AuthenticatorNeverFails ==
    /\ auth.pc = "failed" => auth.calls > 0
    /\ auth.pc \in {"extract", "get_user", "raw", "call_app", "except"} => ENABLED NextAuth
    /\ auth.calls > 0 =>
          \/ auth.app_user = Anon
          \/ TokenResolvesTo(auth.token, auth.app_user)

\* C28: the middleware calls the application at most once per handshake, and
\* exactly once by the time it is through, whatever the token and whether or
\* not the application raises.
C28_AppCalledOnce ==
    /\ auth.calls <= 1
    /\ auth.pc \in {"handed", "failed"} => auth.calls = 1

\* C15, witness: the lookup of the user of a valid token raised, and the
\* connection was handed to the application as anonymous.
C15_Witness ==
    /\ auth.pc = "handed"
    /\ auth.error = "DatabaseError"
    /\ auth.calls = 1
    /\ auth.app_user = Anon
    /\ auth.token.simple = "ok"

(***************************************************************************)
(* Joining a live session: course/views.py, course/models.py               *)
(***************************************************************************)
SessionStatus == {"scheduled", "live", "completed", "cancelled"}

\* The LiveSession rows that exist (all of one class), and the ids a request may name.
SessionRows == {1, 2}
SessionIdInputs == {1, 2, 3}

\* The user of a request: whether the request is authenticated, is_superuser,
\* the role, whether the user is a teacher of the session's class, and the
\* status of the user's enrollment in that class ("none": not enrolled).
JoinUser(authenticated, is_superuser, role, teaches, enrollment) ==
    [authenticated |-> authenticated, is_superuser |-> is_superuser, role |-> role,
     teaches |-> teaches, enrollment |-> enrollment]

JoinUsers ==
    { JoinUser(FALSE, FALSE, "none", FALSE, "none"),
      JoinUser(TRUE, FALSE, "student", FALSE, "completed"),
      JoinUser(TRUE, FALSE, "student", FALSE, "pending"),
      JoinUser(TRUE, FALSE, "student", FALSE, "none"),
      JoinUser(TRUE, FALSE, "teacher", TRUE, "none"),
      JoinUser(TRUE, FALSE, "teacher", FALSE, "none"),
      JoinUser(TRUE, FALSE, "super_admin", FALSE, "none"),
      JoinUser(TRUE, TRUE, "student", FALSE, "none") }

\* LiveSession.can_user_join
can_user_join(user) ==
    \/ user.is_superuser \/ user.role = "super_admin"
    \/ user.teaches
    \/ user.enrollment = "completed"

\* Mutant: the status of the session is not looked at.
JoinRefusesStatusNever(status) == FALSE

\* SessionJoinView.post: `if session.status != 'live':`
JoinRefusesStatus(status) == status # "live"

NoJoinResponse == [status |-> 0, error |-> "none", user |-> JoinUser(FALSE, FALSE, "none", FALSE, "none"),
                   session_id |-> 0, session_status |-> "none", role |-> "none"]

JoinResponse(status, error, user, sid) ==
    [NoJoinResponse EXCEPT !.status = status, !.error = error, !.user = user,
                           !.session_id = sid,
                           !.session_status = IF sid \in SessionRows THEN sessions[sid]
                                              ELSE "none"]

\* POST session/<session_id>/join/ : IsAuthenticated, get_object_or_404, then
\* can_user_join, then the status of the session.
SessionJoinView_post(user, sid) ==
    /\ join' =
         IF ~user.authenticated
         THEN JoinResponse(403, "Authentication credentials were not provided.", user, sid)
         ELSE IF sid \notin SessionRows
         THEN JoinResponse(404, "Not found.", user, sid)
         ELSE IF ~can_user_join(user)
         THEN JoinResponse(403,
                 "You are not enrolled in this class or session is not available", user, sid)
         ELSE IF JoinRefusesStatus(sessions[sid])
         THEN JoinResponse(403,
                 "This session is not currently live. You can only join when the session is active.",
                 user, sid)
         ELSE [JoinResponse(200, "none", user, sid) EXCEPT
                  !.role = IF user.teaches THEN "moderator" ELSE "member"]
    /\ UNCHANGED sessions

\* LiveSessionRetrieveUpdateDestroyView: the status of a session is updated.
UpdateSessionStatus(sid, status) ==
    /\ sessions[sid] # status
    /\ sessions' = [sessions EXCEPT ![sid] = status]
    /\ UNCHANGED join

NextJoin ==
    \/ \E user \in JoinUsers, sid \in SessionIdInputs : SessionJoinView_post(user, sid)
    \/ \E sid \in SessionRows, status \in SessionStatus : UpdateSessionStatus(sid, status)

NotLiveError ==
    "This session is not currently live. You can only join when the session is active."

\* C22, as stated: a request to join succeeds only for a live session; for a
\* session that is not live it is answered 403 with the 'not currently live'
\* error whoever the user is; an unauthenticated request is refused.
C22_JoinOnlyWhileLive ==
    /\ join.status = 200 => join.session_status = "live"
    /\ (join.user.authenticated /\ join.session_status \in SessionStatus \ {"live"}) =>
          join.status = 403 /\ join.error = NotLiveError
    /\ (join.status # 0 /\ ~join.user.authenticated) => join.status = 403

\* C22, amended: a request to join succeeds only for a live session and a user
\* who can join it; for a session that is not live every request is answered
\* 403, with the 'not currently live' error for every user who can join the
\* class (its teachers, enrolled students, super admins) and with the
\* 'not enrolled' error for any other user; an unauthenticated request is
\* answered 403 for every session.
C22_JoinOnlyWhileLiveAmended ==
    /\ join.status = 200 =>
          /\ join.session_status = "live"
          /\ join.user.authenticated
          /\ can_user_join(join.user)
    /\ (join.user.authenticated /\ join.session_status \in SessionStatus \ {"live"}) =>
          /\ join.status = 403
          /\ can_user_join(join.user) => join.error = NotLiveError
          /\ ~can_user_join(join.user) =>
                join.error = "You are not enrolled in this class or session is not available"
    /\ (join.status # 0 /\ ~join.user.authenticated) => join.status = 403

\* C22, witness: a teacher of the class was refused a completed session while
\* another session is live.
C22_Witness ==
    /\ join.user.teaches
    /\ join.status = 403
    /\ join.error = NotLiveError
    /\ join.session_status = "completed"
    /\ \E sid \in SessionRows : sessions[sid] = "live"

(***************************************************************************)
(* Initial state: no connection, empty stores.                             *)
(***************************************************************************)
Init ==
    /\ groups = {}
    /\ inbox = [ch \in Channels |-> <<>>]
    /\ sigConn = [c \in SigConns |-> SigIdle]
    /\ sigOut = [c \in SigConns |-> NoEnvelope]
    /\ sigOps = 0
    /\ msgs = <<>>
    /\ readBy = {}
    /\ chatConn = [c \in ChatConns |-> ChatIdle]
    /\ chatOut = [c \in ChatConns |-> NoFrame]
    /\ rest = RestIdle
    /\ restResp = NoResponse
    /\ chatOps = 0
    /\ notifs = <<>>
    /\ notifConn = [c \in NotifConns |-> NotifIdle]
    /\ notifOut = [c \in NotifConns |-> NoNotifFrames]
    /\ caller = CallerIdle
    /\ notifOps = 0
    /\ auth = AuthIdle
    /\ nrest = [r \in RestSlots |-> NRestIdle]
    /\ nrestResp = NoInboxResponse
    /\ nrestOps = 0
    /\ accounts = <<>>
    /\ sessions = [s \in SessionRows |-> "scheduled"]
    /\ join = NoJoinResponse

\* Stores the chat can be in when the connections of a scenario arrive: a
\* message of user 1 in session 1; two of them; two of them, the first deleted;
\* a message of user 1 and one of user 2, each read by its sender only.
StoredMessage(deleted) == [session |-> 1, sender |-> 1, is_deleted |-> deleted]

Stores ==
    { [msgs |-> <<StoredMessage(FALSE)>>, readBy |-> {<<1, 1>>}],
      [msgs |-> <<StoredMessage(FALSE), StoredMessage(FALSE)>>,
       readBy |-> {<<1, 1>>, <<2, 1>>}],
      [msgs |-> <<StoredMessage(TRUE), StoredMessage(FALSE)>>,
       readBy |-> {<<1, 1>>, <<2, 1>>}],
      [msgs |-> <<StoredMessage(FALSE), [StoredMessage(FALSE) EXCEPT !.sender = 2]>>,
       readBy |-> {<<1, 1>>, <<2, 2>>}] }

InitStore ==
    /\ groups = {}
    /\ inbox = [ch \in Channels |-> <<>>]
    /\ sigConn = [c \in SigConns |-> SigIdle]
    /\ sigOut = [c \in SigConns |-> NoEnvelope]
    /\ sigOps = 0
    /\ \E st \in Stores : msgs = st.msgs /\ readBy = st.readBy
    /\ chatConn = [c \in ChatConns |-> ChatIdle]
    /\ chatOut = [c \in ChatConns |-> NoFrame]
    /\ rest = RestIdle
    /\ restResp = NoResponse
    /\ chatOps = 0
    /\ notifs = <<>>
    /\ notifConn = [c \in NotifConns |-> NotifIdle]
    /\ notifOut = [c \in NotifConns |-> NoNotifFrames]
    /\ caller = CallerIdle
    /\ notifOps = 0
    /\ auth = AuthIdle
    /\ nrest = [r \in RestSlots |-> NRestIdle]
    /\ nrestResp = NoInboxResponse
    /\ nrestOps = 0
    /\ accounts = <<>>
    /\ sessions = [s \in SessionRows |-> "scheduled"]
    /\ join = NoJoinResponse

SpecStore == InitStore /\ [][NextChat /\ UNCHANGED <<sigVars, notifVars, authVars, inboxVars, accountVars, joinVars>>]_vars

SpecChat == Init /\ [][NextChat /\ UNCHANGED <<sigVars, notifVars, authVars, inboxVars, accountVars, joinVars>>]_vars

SpecTalk ==
    Init /\ [][NextTalk /\ UNCHANGED <<sigVars, notifVars, authVars, inboxVars, accountVars, joinVars>>]_vars

SpecMissing ==
    Init /\ [][NextMissing /\ UNCHANGED <<sigVars, notifVars, authVars, inboxVars, accountVars, joinVars>>]_vars

SpecPresence ==
    Init /\ [][NextPresence /\ UNCHANGED <<sigVars, notifVars, authVars, inboxVars, accountVars, joinVars>>]_vars

SpecNotif == Init /\ [][NextNotif /\ UNCHANGED <<sigVars, chatVars, authVars, inboxVars, accountVars, joinVars>>]_vars

SpecSig == Init /\ [][NextSig /\ UNCHANGED <<chatVars, notifVars, authVars, inboxVars, accountVars, joinVars>>]_vars

SpecAuth ==
    Init /\ [][NextAuth /\ UNCHANGED <<fabricVars, sigVars, chatVars, notifVars,
                                       inboxVars, accountVars, joinVars>>]_vars

SpecInbox ==
    Init /\ [][NextInbox /\ UNCHANGED <<sigVars, chatVars, authVars, accountVars, joinVars>>]_vars

SpecSignup ==
    Init /\ [][NextSignup /\ UNCHANGED <<sigVars, chatVars, authVars, inboxVars, joinVars>>]_vars

SpecJoin ==
    Init /\ [][NextJoin /\ UNCHANGED <<fabricVars, sigVars, chatVars, notifVars, authVars,
                                       inboxVars, accountVars>>]_vars

====
